---- MODULE Spec2Model ----
(***************************************************************************)
(* Model of the Twitch::Messaging user agent (src/src/Messaging.cpp) and   *)
(* of the line parser it uses (src/src/Message.cpp).                       *)
(*                                                                         *)
(* Conventions.  A C++ string is a sequence of tokens; a token is an       *)
(* opaque piece of text, except the token " " (a space, the separator      *)
(* SystemAbstractions::Split splits on) and the token "CRLF" (the line     *)
(* terminator on the wire).  The empty string is <<>>.  C++ containers     *)
(* are indexed from 0, sequences here from 1: parameters[k] of the code is *)
(* parameters[k + 1] here.  A null shared_ptr< Connection > is 0, a        *)
(* connection is the index of its record in conns.                         *)
(***************************************************************************)
EXTENDS Integers, Sequences, FiniteSets, TLC

\* ------------------------------------------------------------------ bounds
\* Number of calls of the public API (LogIn, LogInAnonymously, LogOut).
MaxApiCalls == 2
\* Number of receive callbacks of the transport.
MaxReceives == 3
\* Number of actions the mailbox holds at once.
MaxQueue == 1
\* Largest value of the mock clock.
MaxTime == 6
\* the actions the callers of SpecThreads let wait in the mailbox
MaxPending == 2
\* The longest buffer of characters tried on Message::Parse.
MaxLen == 4

\* --------------------------------------------------------------- constants
LOG_IN_TIMEOUT_SECONDS == 5

CRLF == "CRLF"

CapsWanted == {"twitch.tv/commands", "twitch.tv/membership", "twitch.tv/tags"}

ActionTypes ==
    {"LogIn", "RequestCaps", "AwaitMotd", "LogOut", "ProcessMessagesReceived",
     "ServerDisconnected", "Join", "Leave", "SendMessage", "SendWhisper"}

\* A default-constructed Action with the given type and context.  The field
\* id is a ghost: 0 in the mailbox, and the serial number of the push_back
\* that put the action on actionsAwaitingResponses.
NewAction(type, nickname, token, message, anon) ==
    [type |-> type, nickname |-> nickname, token |-> token,
     message |-> message, anonymous |-> anon, expiration |-> 0, id |-> 0]

\* --------------------------------------------------------- names and texts
Nickname == <<"foobar1124">>
Token == <<"alskdfjasdf87sdfsdffsd">>
\* "justinfan%d" of rand()
AnonymousNickname == <<"justinfan", "1804289383">>
Farewells == {<<>>, <<"See ya sucker!">>}
Channel == <<"foobar1125">>
MessageText == <<"Hello, World!">>

\* The prefix the server gives the lines that come from a user.
UserPrefix(nick) ==
    nick \o <<"!">> \o nick \o <<"@">> \o nick \o <<".tmi.twitch.tv">>

\* ------------------------------------------- Message::Parse, by character
\* Here a string is the sequence of its characters.  CR and LF are the two
\* characters of the line terminator; any other token than ":" and " "
\* stands for a character, or a run of characters, that the parser treats
\* like a letter.
CR == "CR"
LF == "LF"

\* Message(): Messaging.cpp reads message.tags.allTags, which nothing in
\* Message::Parse writes.
NewMessage ==
    [prefix |-> <<>>, command |-> <<>>, parameters |-> <<>>,
     tags |-> [allTags |-> <<>>]]

\* dataReceived.find(CRLF): the position of the first CR that an LF
\* follows, 0 for npos.
FindLineEnd(data) ==
    LET ends == {i \in 1..(Len(data) - 1) : data[i] = CR /\ data[i + 1] = LF}
    IN  IF ends = {} THEN 0
        ELSE CHOOSE i \in ends : \A j \in ends : i <= j

\* parameters.back() += c
AppendToBack(parameters, c) ==
    [parameters EXCEPT ![Len(parameters)] = Append(@, c)]

\* One turn of the while loop: the switch on state, for the character c.
UnpackCharacter(st, c) ==
    LET m == st.message IN
    CASE st.state = "LineFirstCharacter" ->
            IF c = ":"
            THEN [st EXCEPT !.state = "Prefix"]
            ELSE [state |-> "CommandNotFirstCharacter",
                  message |-> [m EXCEPT !.command = Append(@, c)]]
      [] st.state = "Prefix" ->
            IF c = " "
            THEN [st EXCEPT !.state = "CommandFirstCharacter"]
            ELSE [st EXCEPT !.message = [m EXCEPT !.prefix = Append(@, c)]]
      [] st.state = "CommandFirstCharacter" ->
            IF c # " "
            THEN [state |-> "CommandNotFirstCharacter",
                  message |-> [m EXCEPT !.command = Append(@, c)]]
            ELSE st
      [] st.state = "CommandNotFirstCharacter" ->
            IF c = " "
            THEN [st EXCEPT !.state = "ParameterFirstCharacter"]
            ELSE [st EXCEPT !.message = [m EXCEPT !.command = Append(@, c)]]
      [] st.state = "ParameterFirstCharacter" ->
            IF c = ":"
            THEN [state |-> "Trailer",
                  message |-> [m EXCEPT !.parameters = Append(@, <<>>)]]
            ELSE IF c # " "
            THEN [state |-> "ParameterNotFirstCharacter",
                  message |-> [m EXCEPT !.parameters = Append(@, <<c>>)]]
            ELSE st
      [] st.state = "ParameterNotFirstCharacter" ->
            IF c = " "
            THEN [st EXCEPT !.state = "ParameterFirstCharacter"]
            ELSE [st EXCEPT !.message =
                      [m EXCEPT !.parameters = AppendToBack(@, c)]]
      [] st.state = "Trailer" ->
            [st EXCEPT !.message = [m EXCEPT !.parameters = AppendToBack(@, c)]]

\* while (offset < line.length()) { ... ++offset; }
RECURSIVE UnpackFrom(_, _, _)
UnpackFrom(st, line, offset) ==
    IF offset > Len(line)
    THEN st
    ELSE UnpackFrom(UnpackCharacter(st, line[offset]), line, offset + 1)

\* The message unpacked from a line: the loop, then command.clear() if the
\* line ended before its command.
UnpackLine(line) ==
    LET st == UnpackFrom([state |-> "LineFirstCharacter", message |-> NewMessage],
                         line, 1)
    IN  IF st.state \in {"LineFirstCharacter", "Prefix", "CommandFirstCharacter"}
        THEN [st.message EXCEPT !.command = <<>>]
        ELSE st.message

\* Mutant: the line feed of the terminator stays in the buffer.
MessageParseKeepingLineFeed(data, message) ==
    LET lineEnd == FindLineEnd(data) IN
    IF lineEnd = 0
    THEN [ok |-> FALSE, dataReceived |-> data, message |-> message]
    ELSE [ok |-> TRUE,
          dataReceived |-> SubSeq(data, lineEnd + 1, Len(data)),
          message |-> UnpackLine(SubSeq(data, 1, lineEnd - 1))]

\* Message::Parse(dataReceived, message, diagnosticsSender): the value
\* returned, and dataReceived and message after the call.
MessageParse(data, message) ==
    LET lineEnd == FindLineEnd(data) IN
    IF lineEnd = 0
    THEN [ok |-> FALSE, dataReceived |-> data, message |-> message]
    ELSE [ok |-> TRUE,
          dataReceived |-> SubSeq(data, lineEnd + 2, Len(data)),
          message |-> UnpackLine(SubSeq(data, 1, lineEnd - 1))]


\* ---------------------------------------------------- ROOMSTATE lines
\* The tags of the ROOMSTATE lines the server sends, by the name of the
\* line, each tag with its value.
RoomFrames == {"RoomState", "RoomStateSlow", "RoomStateTwo"}

RoomTags(name) ==
    CASE name = "RoomStateSlow" ->
            << <<"room-id", "12345">>, <<"slow", "120">> >>
      [] name = "RoomStateTwo" ->
            << <<"room-id", "12345">>, <<"r9k", "1">>, <<"subs-only", "0">> >>
      [] OTHER -> <<>>

\* name=value;name=value
RECURSIVE TagsText(_)
TagsText(tags) ==
    IF tags = <<>>
    THEN <<>>
    ELSE <<tags[1][1], "=", tags[1][2]>>
             \o (IF Len(tags) > 1 THEN <<";">> ELSE <<>>)
             \o TagsText(Tail(tags))

\* [@tags ]:tmi.twitch.tv ROOMSTATE #foobar1125
RoomStateLine(name) ==
    (IF RoomTags(name) = <<>> THEN <<>>
     ELSE <<"@">> \o TagsText(RoomTags(name)) \o <<" ">>)
        \o <<":", "tmi.twitch.tv", " ", "ROOMSTATE", " ", "#", "foobar1125">>

\* ------------------------------------------------------------ wire frames
\* The lines the server side of the model can put on the wire, by name, as
\* Message::Parse unpacks them (prefix, command, parameters).
Frame(name) ==
    CASE name = "CapLsFull" ->
            [prefix |-> <<"tmi.twitch.tv">>, command |-> <<"CAP">>,
             parameters |-> << <<"*">>, <<"LS">>,
                 <<"twitch.tv/membership", " ", "twitch.tv/tags", " ",
                   "twitch.tv/commands">> >>]
      [] name = "CapLsPart" ->
            [prefix |-> <<"tmi.twitch.tv">>, command |-> <<"CAP">>,
             parameters |-> << <<"*">>, <<"LS">>,
                 <<"twitch.tv/membership", " ", "twitch.tv/tags">> >>]
      [] name = "CapLsMore" ->
            [prefix |-> <<"tmi.twitch.tv">>, command |-> <<"CAP">>,
             parameters |-> << <<"*">>, <<"LS">>, <<"*">>,
                 <<"twitch.tv/commands">> >>]
      [] name = "CapAck" ->
            [prefix |-> <<"tmi.twitch.tv">>, command |-> <<"CAP">>,
             parameters |-> << <<"*">>, <<"ACK">>,
                 <<"twitch.tv/commands">> >>]
      [] name = "CapNak" ->
            [prefix |-> <<"tmi.twitch.tv">>, command |-> <<"CAP">>,
             parameters |-> << <<"*">>, <<"NAK">>,
                 <<"twitch.tv/commands">> >>]
      [] name = "Motd" ->
            [prefix |-> <<"tmi.twitch.tv">>, command |-> <<"376">>,
             parameters |-> << <<"<user>">>, <<">">> >>]
      [] name = "NoticeUnsuccessful" ->
            [prefix |-> <<"tmi.twitch.tv">>, command |-> <<"NOTICE">>,
             parameters |-> << <<"*">>, <<"Login unsuccessful">> >>]
      [] name = "NoticeAuthFailed" ->
            [prefix |-> <<"tmi.twitch.tv">>, command |-> <<"NOTICE">>,
             parameters |-> << <<"*">>, <<"Login authentication failed">> >>]
      [] name = "NoticeOther" ->
            [prefix |-> <<"tmi.twitch.tv">>, command |-> <<"NOTICE">>,
             parameters |-> << <<"*">>, <<"Your settings prevent this">> >>]
      [] name = "Ping" ->
            [prefix |-> <<>>, command |-> <<"PING">>,
             parameters |-> << <<"Hello!">> >>]
      [] name = "PingAgain" ->
            [prefix |-> <<>>, command |-> <<"PING">>,
             parameters |-> << <<"Are", " ", "you", " ", "there?">> >>]
      [] name = "PingBare" ->
            [prefix |-> <<>>, command |-> <<"PING">>, parameters |-> <<>>]
      [] name = "JoinAnon" ->
            [prefix |-> UserPrefix(AnonymousNickname), command |-> <<"JOIN">>,
             parameters |-> << <<"#">> \o Channel >>]
      [] name = "PartAnon" ->
            [prefix |-> UserPrefix(AnonymousNickname), command |-> <<"PART">>,
             parameters |-> << <<"#">> \o Channel >>]
      [] name = "JoinOther" ->
            [prefix |-> UserPrefix(<<"foobar1126">>), command |-> <<"JOIN">>,
             parameters |-> << <<"#">> \o Channel >>]
      [] name \in RoomFrames -> UnpackLine(RoomStateLine(name))
      [] name = "CapLsStar" ->
            [prefix |-> <<"tmi.twitch.tv">>, command |-> <<"CAP">>,
             parameters |-> << <<"*">>, <<"LS">>, <<"*">> >>]
      [] name = "HostOn" ->
            [prefix |-> <<"tmi.twitch.tv">>, command |-> <<"HOSTTARGET">>,
             parameters |-> << <<"#">> \o Channel,
                               <<"foobar1126", " ", "42">> >>]
      [] name = "HostOff" ->
            [prefix |-> <<"tmi.twitch.tv">>, command |-> <<"HOSTTARGET">>,
             parameters |-> << <<"#">> \o Channel, <<"-", " ", "0">> >>]
      [] name = "HostNoViewers" ->
            [prefix |-> <<"tmi.twitch.tv">>, command |-> <<"HOSTTARGET">>,
             parameters |-> << <<"#">> \o Channel, <<"foobar1126">> >>]
      [] name = "HostBare" ->
            [prefix |-> <<"tmi.twitch.tv">>, command |-> <<"HOSTTARGET">>,
             parameters |-> << <<"#">> \o Channel >>]
      [] OTHER ->
            [prefix |-> <<>>, command |-> <<>>, parameters |-> <<>>]

\* The lines the server sends in SpecChat: a handshake without CAP REQ, the
\* MOTD, the JOIN and PART lines of the anonymous user and the JOIN line of
\* another user.
ChatFrames == {"CapLsPart", "Motd", "JoinAnon", "PartAnon", "JoinOther"}


\* The lines the server sends in SpecPing: PING with one token, with
\* another, and without any.
PingFrames == {"Ping", "PingAgain", "PingBare"}

\* The lines the server sends in Spec: the capability handshake and the MOTD.
HandshakeFrames == {"CapLsFull", "CapLsPart", "CapLsMore", "CapAck", "Motd"}

\* The lines the server sends in SpecCaps: those, and the refusal of CAP REQ.
CapFrames == HandshakeFrames \cup {"CapNak"}

\* The lines the server sends in SpecAuth: a handshake without CAP REQ, the
\* MOTD and the two NOTICEs of a refused log-in.
AuthFrames == {"CapLsPart", "Motd", "NoticeUnsuccessful", "NoticeAuthFailed"}


\* ---------------------------------------------------------------- state
VARIABLES
    \* protected by the mutex
    stopWorker,                 \* Impl::stopWorker
    actionsToBePerformed,       \* Impl::actionsToBePerformed, the mailbox
    \* used by the worker thread only
    connection,                 \* Impl::connection (0 = nullptr)
    dataReceived,               \* Impl::dataReceived
    anonymous,                  \* Impl::anonymous
    loggedIn,                   \* Impl::loggedIn
    actionsAwaitingResponses,   \* Impl::actionsAwaitingResponses
    capsSupported,              \* Impl::capsSupported
    diagnostics,                \* Impl::diagnosticsSender and its subscriber
    \* the worker thread's position in Impl::Worker
    pc,
    mutex,                      \* Impl::mutex: the thread that holds it, or ""
    notified,                   \* Impl::wakeWorker: the waiting worker was notified
    action,                     \* the local variable action of Impl::Worker
    \* collaborators
    timeKeeper,                 \* Impl::timeKeeper != nullptr
    currentTime,                \* what TimeKeeper::GetCurrentTime returns
    conns,                      \* the connections the factory has made
    serverMidLine,              \* the server has sent a line without its CRLF
    \* history
    log,                        \* what the worker has done, in order
    last,                       \* the worker's last step, and the state before it
    queued,                     \* push_backs on actionsAwaitingResponses
    ub,                         \* an element that does not exist was read
    apiCalls,                   \* public API calls made
    receives,                   \* receive callbacks made
    performed,                  \* the actions popped by the steps of SpecThreads
    atStop,                     \* the worker's progress when stopWorker was set
    mailboxBound,               \* the length the callers let the mailbox reach
    parsed,                     \* the last call of Message::Parse in SpecParse
    twin                        \* in SpecDiag, the run with the other token

vars ==
    <<stopWorker, actionsToBePerformed, connection, dataReceived, anonymous,
      loggedIn, actionsAwaitingResponses, capsSupported, pc,
      timeKeeper, currentTime, conns, serverMidLine, log, last, queued,
      ub, apiCalls, receives, mutex, action, performed, atStop,
      mailboxBound, parsed, diagnostics, twin, notified>>

\* The mutex and the local variable of the worker, which only the steps of
\* SpecThreads show, and the history they keep.
threadVars ==
    <<mutex, action, performed, atStop, mailboxBound, parsed, twin>>

\* What the steps of the worker leave alone, its wait apart: the
\* collaborators, the counts of the calls, and the notification of wakeWorker.
envVars ==
    <<timeKeeper, currentTime, serverMidLine, apiCalls, receives, notified>>

\* The log holds, in order, the calls the worker makes on its collaborators
\* ("Factory", "Connect", "Send" and "Disconnect" for a connection, "User" for
\* a callback of the User object) and two marks: "Await" when an action is
\* pushed on actionsAwaitingResponses and "Timeout" when one is handed to
\* TimeoutAction, both with the id of the action.  The diagnostic messages
\* the code publishes are kept apart, in diagnostics.
Event(kind, conn, arg, id) == [kind |-> kind, conn |-> conn, arg |-> arg, id |-> id]

\* The worker-side state as one record, which the operators below transform.
Session ==
    [connection |-> connection, dataReceived |-> dataReceived,
     anonymous |-> anonymous, loggedIn |-> loggedIn,
     awaiting |-> actionsAwaitingResponses, capsSupported |-> capsSupported,
     timeKeeper |-> timeKeeper, currentTime |-> currentTime, conns |-> conns,
     log |-> log, queued |-> queued, ub |-> ub, diagnostics |-> diagnostics]

Install(s) ==
    /\ connection' = s.connection
    /\ dataReceived' = s.dataReceived
    /\ anonymous' = s.anonymous
    /\ loggedIn' = s.loggedIn
    /\ actionsAwaitingResponses' = s.awaiting
    /\ capsSupported' = s.capsSupported
    /\ conns' = s.conns
    /\ log' = s.log
    /\ queued' = s.queued
    /\ ub' = s.ub
    /\ diagnostics' = s.diagnostics

Mark(s, kind, arg, id) ==
    [s EXCEPT !.log = Append(@, Event(kind, s.connection, arg, id))]

\* ---------------------------------------------------------- collaborators
\* Connection::Send on the current connection.
ConnectionSend(s, text) == Mark(s, "Send", text, 0)

\* Connection::Disconnect on the current connection.
ConnectionDisconnect(s) ==
    [Mark(s, "Disconnect", <<>>, 0) EXCEPT
        !.conns[s.connection].isDisconnected = TRUE]

\* A callback of the User object.
UserCall(s, name, arg) == Mark(s, "User", <<name>> \o arg, 0)

\* SystemAbstractions::Split(s, ' '): the pieces between the spaces.
Split(str) == SelectSeq(str, LAMBDA tok : tok # " ")

Range(seq) == {seq[i] : i \in DOMAIN seq}

\* ---------------------------------------------------------------- engine
\* DiagnosticsSender::SendDiagnosticInformationString(0, text): the text
\* reaches the delegate given to SubscribeToDiagnostics, if there is one.
SendDiagnosticInformationString(s, text) ==
    IF s.diagnostics.subscribed
    THEN [s EXCEPT !.diagnostics.received = Append(@, text)]
    ELSE s

\* The text published for a line that begins with "PASS oauth:".
Redacted == <<"< ", "PASS oauth:", "**********************">>

\* Mutant: every line sent is published as it is.
SendLineToTwitchServerInClear(s, rawLine) ==
    ConnectionSend(SendDiagnosticInformationString(s, <<"< ">> \o rawLine),
                   rawLine \o <<CRLF>>)

SendLineToTwitchServer(s, rawLine) ==
    ConnectionSend(
        SendDiagnosticInformationString(
            s,
            IF rawLine # <<>> /\ rawLine[1] = "PASS oauth:"
            THEN Redacted
            ELSE <<"< ">> \o rawLine),
        rawLine \o <<CRLF>>)

\* Mutant: the action is pushed with the deadline it came with.
PushAwaitingSameDeadline(s, a, type) ==
    LET n == s.queued + 1
        b == [a EXCEPT !.type = type, !.id = n]
        s1 == Mark(s, "Await", <<type>>, n)
    IN  [s1 EXCEPT !.awaiting = Append(@, b), !.queued = n]

\* push_back of the action on actionsAwaitingResponses, with the type and
\* the deadline its caller has set.
PushAwaiting(s, a, type) ==
    LET n == s.queued + 1
        b == [a EXCEPT !.type = type,
                       !.expiration = IF s.timeKeeper
                                      THEN s.currentTime + LOG_IN_TIMEOUT_SECONDS
                                      ELSE @,
                       !.id = n]
        s1 == Mark(s, "Await", <<type>>, n)
    IN  [s1 EXCEPT !.awaiting = Append(@, b), !.queued = n]

RequestCapabilities(s, a) ==
    LET s1 == SendLineToTwitchServer(s,
                  <<"CAP REQ :twitch.tv/commands twitch.tv/membership twitch.tv/tags">>)
    IN  PushAwaiting(s1, a, "RequestCaps")

\* Mutant: the nickname is offered before the capability handshake is ended.
EndCapabilitiesHandshakeNickFirst(s, a) ==
    LET s1 == SendLineToTwitchServer(s, <<"NICK ">> \o a.nickname)
        s2 == SendLineToTwitchServer(s1, <<"CAP END">>)
        s3 == IF ~s2.anonymous
              THEN SendLineToTwitchServer(s2, <<"PASS oauth:">> \o a.token)
              ELSE s2
    IN  PushAwaiting(s3, a, "AwaitMotd")

\* Mutant: the token is offered whatever the kind of session.
EndCapabilitiesHandshakeAlwaysPass(s, a) ==
    LET s1 == SendLineToTwitchServer(s, <<"CAP END">>)
        s2 == SendLineToTwitchServer(s1, <<"PASS oauth:">> \o a.token)
        s3 == SendLineToTwitchServer(s2, <<"NICK ">> \o a.nickname)
    IN  PushAwaiting(s3, a, "AwaitMotd")

EndCapabilitiesHandshakeAndAuthenticate(s, a) ==
    LET s1 == SendLineToTwitchServer(s, <<"CAP END">>)
        s2 == IF ~s1.anonymous
              THEN SendLineToTwitchServer(s1, <<"PASS oauth:">> \o a.token)
              ELSE s1
        s3 == SendLineToTwitchServer(s2, <<"NICK ">> \o a.nickname)
    IN  PushAwaiting(s3, a, "AwaitMotd")

\* Mutant: the farewell is not sent.
DisconnectWithoutFarewell(s, farewell) ==
    IF s.connection = 0
    THEN s
    ELSE UserCall(ConnectionDisconnect(s), "LogOut", <<>>)

Disconnect(s, farewell) ==
    IF s.connection = 0
    THEN s
    ELSE LET s1 == IF farewell # <<>>
                   THEN ConnectionSend(s, <<"QUIT :">> \o farewell \o <<CRLF>>)
                   ELSE s
             s2 == ConnectionDisconnect(s1)
         IN  UserCall(s2, "LogOut", <<>>)

\* connectOk is what Connection::Connect returns.
\* Mutant: a connection that fails to connect is treated as connected.
PerformActionLogInUnchecked(s, a, connectOk) ==
    IF s.connection # 0
    THEN s
    ELSE LET c == Len(s.conns) + 1
             s1 == [s EXCEPT !.connection = c,
                             !.conns = Append(@, [isConnected |-> connectOk,
                                                  isDisconnected |-> FALSE,
                                                  closedByServer |-> FALSE])]
             s2 == Mark(Mark(s1, "Factory", <<>>, 0), "Connect",
                        <<IF connectOk THEN "ok" ELSE "failed">>, 0)
             s3 == [s2 EXCEPT !.capsSupported = {},
                              !.anonymous = a.anonymous]
             s4 == SendLineToTwitchServer(s3, <<"CAP LS 302">>)
         IN  PushAwaiting(s4, a, "LogIn")

\* Mutant: a connection is made whether or not there is one already.
PerformActionLogInAnew(s, a, connectOk) ==
    LET c == Len(s.conns) + 1
        s1 == [s EXCEPT !.connection = c,
                        !.conns = Append(@, [isConnected |-> connectOk,
                                             isDisconnected |-> FALSE,
                                             closedByServer |-> FALSE])]
        s2 == Mark(Mark(s1, "Factory", <<>>, 0), "Connect",
                   <<IF connectOk THEN "ok" ELSE "failed">>, 0)
    IN  IF connectOk
        THEN LET s3 == [s2 EXCEPT !.capsSupported = {},
                                  !.anonymous = a.anonymous]
                 s4 == SendLineToTwitchServer(s3, <<"CAP LS 302">>)
             IN  PushAwaiting(s4, a, "LogIn")
        ELSE UserCall(s2, "LogOut", <<>>)

PerformActionLogIn(s, a, connectOk) ==
    IF s.connection # 0
    THEN s
    ELSE LET c == Len(s.conns) + 1
             s1 == [s EXCEPT !.connection = c,
                             !.conns = Append(@, [isConnected |-> connectOk,
                                                  isDisconnected |-> FALSE,
                                                  closedByServer |-> FALSE])]
             s2 == Mark(Mark(s1, "Factory", <<>>, 0), "Connect",
                        <<IF connectOk THEN "ok" ELSE "failed">>, 0)
         IN  IF connectOk
             THEN LET s3 == [s2 EXCEPT !.capsSupported = {},
                                       !.anonymous = a.anonymous]
                      s4 == SendLineToTwitchServer(s3, <<"CAP LS 302">>)
                  IN  PushAwaiting(s4, a, "LogIn")
             ELSE UserCall(s2, "LogOut", <<>>)

\* Mutant: the capabilities are requested when any of them is advertised.
ProcessActionLogInCapAnyAdvertised(s, a, message) ==
    LET p == message.parameters IN
    IF Len(p) < 3 \/ p[2] # <<"LS">>
    THEN [s |-> s, done |-> FALSE]
    ELSE IF p[3] = <<"*">>
    THEN IF Len(p) < 4
         THEN [s |-> [s EXCEPT !.ub = TRUE], done |-> FALSE]
         ELSE [s |-> [s EXCEPT !.capsSupported = @ \cup Range(Split(p[4]))],
               done |-> FALSE]
    ELSE LET s1 == [s EXCEPT !.capsSupported = @ \cup Range(Split(p[3]))]
         IN  IF CapsWanted \cap s1.capsSupported # {}
             THEN [s |-> RequestCapabilities(s1, a), done |-> TRUE]
             ELSE [s |-> EndCapabilitiesHandshakeAndAuthenticate(s1, a),
                   done |-> TRUE]

\* Mutant: the decision is taken on every line of the list.
ProcessActionLogInCapEveryLine(s, a, message) ==
    LET p == message.parameters IN
    IF Len(p) < 3 \/ p[2] # <<"LS">>
    THEN [s |-> s, done |-> FALSE]
    ELSE LET caps == IF p[3] = <<"*">> /\ Len(p) >= 4 THEN p[4] ELSE p[3]
             s1 == [s EXCEPT !.capsSupported = @ \cup Range(Split(caps))]
         IN  IF CapsWanted \subseteq s1.capsSupported
             THEN [s |-> RequestCapabilities(s1, a), done |-> TRUE]
             ELSE [s |-> EndCapabilitiesHandshakeAndAuthenticate(s1, a),
                   done |-> TRUE]

\* An action processor returns the new state and whether the action was
\* completed: [s |-> ..., done |-> ...].
ProcessActionLogInCap(s, a, message) ==
    LET p == message.parameters IN
    IF Len(p) < 3 \/ p[2] # <<"LS">>
    THEN [s |-> s, done |-> FALSE]
    ELSE IF p[3] = <<"*">>
    THEN IF Len(p) < 4
         THEN [s |-> [s EXCEPT !.ub = TRUE], done |-> FALSE]
         ELSE [s |-> [s EXCEPT !.capsSupported = @ \cup Range(Split(p[4]))],
               done |-> FALSE]
    ELSE LET s1 == [s EXCEPT !.capsSupported = @ \cup Range(Split(p[3]))]
         IN  IF CapsWanted \subseteq s1.capsSupported
             THEN [s |-> RequestCapabilities(s1, a), done |-> TRUE]
             ELSE [s |-> EndCapabilitiesHandshakeAndAuthenticate(s1, a),
                   done |-> TRUE]

\* Mutant: any CAP message ends the wait for the answer to CAP REQ.
ProcessActionRequestCapsCapAnyReply(s, a, message) ==
    IF Len(message.parameters) < 2
    THEN [s |-> s, done |-> FALSE]
    ELSE [s |-> EndCapabilitiesHandshakeAndAuthenticate(s, a), done |-> TRUE]

\* Mutant: only an acknowledgement ends the wait for the answer to CAP REQ.
ProcessActionRequestCapsCapAckOnly(s, a, message) ==
    LET p == message.parameters IN
    IF Len(p) < 2 \/ p[2] # <<"ACK">>
    THEN [s |-> s, done |-> FALSE]
    ELSE [s |-> EndCapabilitiesHandshakeAndAuthenticate(s, a), done |-> TRUE]

ProcessActionRequestCapsCap(s, a, message) ==
    LET p == message.parameters IN
    IF Len(p) < 2 \/ (p[2] # <<"ACK">> /\ p[2] # <<"NAK">>)
    THEN [s |-> s, done |-> FALSE]
    ELSE [s |-> EndCapabilitiesHandshakeAndAuthenticate(s, a), done |-> TRUE]

\* Mutant: the action goes on awaiting the MOTD after the log-in.
ProcessActionAwaitMotdMotdKeeping(s, a, message) ==
    IF ~s.loggedIn
    THEN [s |-> UserCall([s EXCEPT !.loggedIn = TRUE], "LogIn", <<>>),
          done |-> FALSE]
    ELSE [s |-> s, done |-> FALSE]

ProcessActionAwaitMotdMotd(s, a, message) ==
    IF ~s.loggedIn
    THEN [s |-> UserCall([s EXCEPT !.loggedIn = TRUE], "LogIn", <<>>),
          done |-> TRUE]
    ELSE [s |-> s, done |-> TRUE]

DiscardAction(s, a, message) == [s |-> s, done |-> FALSE]

\* Mutant: the 376 is taken by an action in any phase of the log-in.
motdActionProcessorsInAnyPhase == {"LogIn", "RequestCaps", "AwaitMotd"}

\* The three ActionProcessors tables of the code.
motdActionProcessors == {"AwaitMotd"}
capActionProcessors == {"LogIn", "RequestCaps"}
loginFailActionProcessors == {"AwaitMotd"}

\* (this->*(actionProcessor->second))(action, message), for the table named.
CallProcessor(table, s, a, message) ==
    CASE table = "motd" -> ProcessActionAwaitMotdMotd(s, a, message)
      [] table = "cap" /\ a.type = "LogIn" -> ProcessActionLogInCap(s, a, message)
      [] table = "cap" /\ a.type = "RequestCaps" ->
            ProcessActionRequestCapsCap(s, a, message)
      [] table = "loginFail" -> DiscardAction(s, a, message)

ProcessorTable(table) ==
    CASE table = "motd" -> motdActionProcessors
      [] table = "cap" -> capActionProcessors
      [] table = "loginFail" -> loginFailActionProcessors

RemoveAt(seq, i) == SubSeq(seq, 1, i - 1) \o SubSeq(seq, i + 1, Len(seq))

\* The loop of ProcessMessageWithAwaitingActions from position i on.  The end
\* iterator of a std::list stays the end when an element is appended, so an
\* awaiter pushed by a processor is visited in the same walk.
\* Mutant: an action that a message has completed stays on the list.
RECURSIVE WalkAwaitingActionsKeeping(_, _, _, _)
WalkAwaitingActionsKeeping(s, i, message, table) ==
    IF i > Len(s.awaiting)
    THEN s
    ELSE LET a == s.awaiting[i] IN
         IF a.type \in ProcessorTable(table)
         THEN WalkAwaitingActionsKeeping(
                  CallProcessor(table, s, a, message).s, i + 1, message, table)
         ELSE WalkAwaitingActionsKeeping(s, i + 1, message, table)

RECURSIVE WalkAwaitingActions(_, _, _, _)
WalkAwaitingActions(s, i, message, table) ==
    IF i > Len(s.awaiting)
    THEN s
    ELSE LET a == s.awaiting[i] IN
         IF a.type \in ProcessorTable(table)
         THEN LET r == CallProcessor(table, s, a, message) IN
              IF r.done
              THEN WalkAwaitingActions(
                       [r.s EXCEPT !.awaiting = RemoveAt(@, i)], i, message, table)
              ELSE WalkAwaitingActions(r.s, i + 1, message, table)
         ELSE WalkAwaitingActions(s, i + 1, message, table)

ProcessMessageWithAwaitingActionsKeeping(s, message, table) ==
    WalkAwaitingActionsKeeping(s, 1, message, table)

ProcessMessageWithAwaitingActions(s, message, table) ==
    WalkAwaitingActions(s, 1, message, table)


\* ------------------------------------------------- server command handlers
\* Mutant: every 376 is reported as a log-in, whatever is being awaited.
HandleServerCommandMotdAlways(s, message) ==
    LET s1 == [s EXCEPT !.loggedIn = TRUE,
                        !.awaiting = SelectSeq(@, LAMBDA a : a.type # "AwaitMotd")]
    IN  UserCall(s1, "LogIn", <<>>)

HandleServerCommandMotd(s, message) ==
    ProcessMessageWithAwaitingActions(s, message, "motd")

\* Mutant: every PING is answered with the token of the first.
HandleServerCommandPingSameToken(s, message) ==
    IF Len(message.parameters) < 1
    THEN s
    ELSE IF s.connection # 0
         THEN SendLineToTwitchServer(s, <<"PONG :", "Hello!">>)
         ELSE s

HandleServerCommandPing(s, message) ==
    IF Len(message.parameters) < 1
    THEN s
    ELSE IF s.connection # 0
         THEN SendLineToTwitchServer(s, <<"PONG :">> \o message.parameters[1])
         ELSE s

\* std::string::find of a character: its position, 0 for npos.
Find(str, ch) ==
    IF \E i \in DOMAIN str : str[i] = ch
    THEN CHOOSE i \in DOMAIN str :
             str[i] = ch /\ \A j \in 1..(i - 1) : str[j] # ch
    ELSE 0

HandleServerCommandJoin(s, message) ==
    LET p == message.parameters
        nicknameDelimiter == Find(message.prefix, "!")
    IN  IF Len(p) < 1 \/ Len(p[1]) < 2
        THEN s
        ELSE IF nicknameDelimiter = 0
             THEN s
             ELSE UserCall(s, "Join",
                      <<SubSeq(message.prefix, 1, nicknameDelimiter - 1), Tail(p[1])>>)

HandleServerCommandPart(s, message) ==
    LET p == message.parameters
        nicknameDelimiter == Find(message.prefix, "!")
    IN  IF Len(p) < 1 \/ Len(p[1]) < 2
        THEN s
        ELSE IF nicknameDelimiter = 0
             THEN s
             ELSE UserCall(s, "Leave",
                      <<SubSeq(message.prefix, 1, nicknameDelimiter - 1), Tail(p[1])>>)

HandleServerCommandCap(s, message) ==
    ProcessMessageWithAwaitingActions(s, message, "cap")

HandleServerCommandNotice(s, message) ==
    LET p == message.parameters IN
    IF Len(p) < 2 \/ Len(p[1]) < 1
    THEN s
    ELSE LET noticeText == p[2]
             s1 == UserCall(s, "Notice", noticeText)
         IN  IF ~s1.loggedIn /\ noticeText = <<"Login unsuccessful">>
             THEN ProcessMessageWithAwaitingActions(
                      UserCall(s1, "LogOut", <<>>), message, "loginFail")
             ELSE s1

\* The commands of serverCommandHandlers that this model sends frames for.
\* The modes of a room, in the order the handler looks for their tags.
RoomModes == <<"slow", "followers-only", "r9k", "emote-only", "subs-only">>

\* sscanf(text, "%d", &n): the number of conversions made and the value
\* stored, for the values the server gives to tags.
Sscanf(text) ==
    CASE text = <<"0">> -> [converted |-> 1, value |-> 0]
      [] text = <<"1">> -> [converted |-> 1, value |-> 1]
      [] text = <<"-1">> -> [converted |-> 1, value |-> -1]
      [] text = <<"30">> -> [converted |-> 1, value |-> 30]
      [] text = <<"42">> -> [converted |-> 1, value |-> 42]
      [] text = <<"120">> -> [converted |-> 1, value |-> 120]
      [] text = <<"12345">> -> [converted |-> 1, value |-> 12345]
      [] OTHER -> [converted |-> 0, value |-> 0]

\* The value of the tag named as a number, 0 if it is not a number; absent
\* is what the caller has before the conversion.
TagNumber(allTags, name, absent) ==
    IF name \in DOMAIN allTags
    THEN IF Sscanf(allTags[name]).converted = 1
         THEN Sscanf(allTags[name]).value
         ELSE 0
    ELSE absent

\* The for loop of HandleServerCommandRoomState, from mode i on.
RECURSIVE RoomModeChanges(_, _, _)
RoomModeChanges(s, message, i) ==
    IF i > Len(RoomModes)
    THEN s
    ELSE LET mode == RoomModes[i]
             allTags == message.tags.allTags
         IN  IF mode \in DOMAIN allTags
             THEN RoomModeChanges(
                      UserCall(s, "RoomModeChange",
                          <<Tail(message.parameters[1]),
                            TagNumber(allTags, "room-id", 0),
                            mode,
                            TagNumber(allTags, mode, 0)>>),
                      message, i + 1)
             ELSE RoomModeChanges(s, message, i + 1)

HandleServerCommandRoomState(s, message) ==
    LET p == message.parameters IN
    IF Len(p) < 1 \/ Len(p[1]) < 2
    THEN s
    ELSE RoomModeChanges(s, message, 1)

\* secondParameterParts[0] and secondParameterParts[1] are read whatever
\* the number of parts: with fewer than two the read is outside the vector,
\* and what follows is not defined (ub).
HandleServerCommandHostTarget(s, message) ==
    LET p == message.parameters IN
    IF Len(p) < 2 \/ Len(p[1]) < 2
    THEN s
    ELSE LET secondParameterParts == Split(p[2]) IN
         IF Len(secondParameterParts) < 2
         THEN [s EXCEPT !.ub = TRUE]
         ELSE LET on == secondParameterParts[1] # "-"
                  beingHosted == IF on THEN <<secondParameterParts[1]>> ELSE <<>>
                  scanned == Sscanf(<<secondParameterParts[2]>>)
                  viewers == IF scanned.converted = 1 THEN scanned.value ELSE 0
              IN  UserCall(s, "Host", <<Tail(p[1]), on, beingHosted, viewers>>)

HandleServerCommand(s, message) ==
    CASE message.command = <<"376">> -> HandleServerCommandMotd(s, message)
      [] message.command = <<"PING">> -> HandleServerCommandPing(s, message)
      [] message.command = <<"JOIN">> -> HandleServerCommandJoin(s, message)
      [] message.command = <<"PART">> -> HandleServerCommandPart(s, message)
      [] message.command = <<"CAP">> -> HandleServerCommandCap(s, message)
      [] message.command = <<"NOTICE">> ->
            HandleServerCommandNotice(s, message)
      [] message.command = <<"ROOMSTATE">> ->
            HandleServerCommandRoomState(s, message)
      [] message.command = <<"HOSTTARGET">> ->
            HandleServerCommandHostTarget(s, message)
      [] OTHER -> s

\* ------------------------------------------------------------- the parser
\* The position of the first CRLF in the buffer, 0 if there is none.
FindCRLF(buffer) ==
    IF \E i \in DOMAIN buffer : buffer[i] = CRLF
    THEN CHOOSE i \in DOMAIN buffer :
             /\ buffer[i] = CRLF
             /\ \A j \in 1..(i - 1) : buffer[j] # CRLF
    ELSE 0

\* A line of the wire is the name of one frame; whatever else is between two
\* CRLFs (nothing, here) unpacks to a message with an empty command.
Unpack(line) == IF Len(line) = 1 THEN Frame(line[1]) ELSE Frame("")

\* Message::Parse: [ok, rest, line, message].
Parse(buffer) ==
    LET lineEnd == FindCRLF(buffer) IN
    IF lineEnd = 0
    THEN [ok |-> FALSE, rest |-> buffer, line |-> <<>>, message |-> Frame("")]
    ELSE LET line == SubSeq(buffer, 1, lineEnd - 1)
         IN  [ok |-> TRUE,
              rest |-> SubSeq(buffer, lineEnd + 1, Len(buffer)),
              line |-> line,
              message |-> Unpack(line)]

\* The while loop of PerformActionProcessMessagesReceived; Message::Parse
\* publishes each line it takes off the buffer.
RECURSIVE ParseLoop(_)
ParseLoop(s) ==
    LET r == Parse(s.dataReceived) IN
    IF ~r.ok
    THEN s
    ELSE ParseLoop(
             HandleServerCommand(
                 [SendDiagnosticInformationString(s, <<"> ">> \o r.line)
                      EXCEPT !.dataReceived = r.rest],
                 r.message))

\* ------------------------------------------------------- action performers
\* Mutant: what was left in the buffer is dropped when more arrives.
PerformActionProcessMessagesReceivedAfresh(s, a) ==
    ParseLoop([s EXCEPT !.dataReceived = a.message])

PerformActionProcessMessagesReceived(s, a) ==
    ParseLoop([s EXCEPT !.dataReceived = @ \o a.message])

\* Mutant: the farewell of the caller is dropped.
PerformActionLogOutSilent(s, a) == Disconnect(s, <<>>)

PerformActionLogOut(s, a) == Disconnect(s, a.message)

PerformActionServerDisconnected(s, a) == Disconnect(s, <<>>)

PerformActionJoin(s, a) ==
    IF s.connection = 0 THEN s
    ELSE SendLineToTwitchServer(s, <<"JOIN #">> \o a.nickname)

PerformActionLeave(s, a) ==
    IF s.connection = 0 THEN s
    ELSE SendLineToTwitchServer(s, <<"PART #">> \o a.nickname)

\* Mutant: a message is sent whatever the kind of session.
PerformActionSendMessageAlways(s, a) ==
    IF s.connection = 0 THEN s
    ELSE SendLineToTwitchServer(s,
             <<"PRIVMSG #">> \o a.nickname \o <<" :">> \o a.message)

PerformActionSendMessage(s, a) ==
    IF s.connection = 0 \/ s.anonymous THEN s
    ELSE SendLineToTwitchServer(s,
             <<"PRIVMSG #">> \o a.nickname \o <<" :">> \o a.message)

PerformActionSendWhisper(s, a) ==
    IF s.connection = 0 \/ s.anonymous THEN s
    ELSE SendLineToTwitchServer(s,
             <<"PRIVMSG #jtv :.w ">> \o a.nickname \o <<" ">> \o a.message)

PerformAction(s, a, connectOk) ==
    CASE a.type = "LogIn" -> PerformActionLogIn(s, a, connectOk)
      [] a.type = "LogOut" -> PerformActionLogOut(s, a)
      [] a.type = "ProcessMessagesReceived" ->
            PerformActionProcessMessagesReceived(s, a)
      [] a.type = "ServerDisconnected" -> PerformActionServerDisconnected(s, a)
      [] a.type = "Join" -> PerformActionJoin(s, a)
      [] a.type = "Leave" -> PerformActionLeave(s, a)
      [] a.type = "SendMessage" -> PerformActionSendMessage(s, a)
      [] a.type = "SendWhisper" -> PerformActionSendWhisper(s, a)
      [] OTHER -> s

\* ----------------------------------------------------------------- timeouts
TimeoutActionLogIn(s, a) == Disconnect(s, <<"Timeout waiting for capability list">>)

TimeoutActionRequestCaps(s, a) ==
    Disconnect(s, <<"Timeout waiting for response to capability request">>)

TimeoutActionAwaitMotd(s, a) == Disconnect(s, <<"Timeout waiting for MOTD">>)

TimeoutAction(s, a) ==
    LET s1 == Mark(s, "Timeout", <<a.type>>, a.id) IN
    CASE a.type = "LogIn" -> TimeoutActionLogIn(s1, a)
      [] a.type = "RequestCaps" -> TimeoutActionRequestCaps(s1, a)
      [] a.type = "AwaitMotd" -> TimeoutActionAwaitMotd(s1, a)
      [] OTHER -> s1

\* The loop of ProcessTimeouts from position i on, with now read once.
RECURSIVE WalkTimeouts(_, _, _)
WalkTimeouts(s, i, now) ==
    IF i > Len(s.awaiting)
    THEN s
    ELSE LET a == s.awaiting[i] IN
         IF now >= a.expiration
         THEN WalkTimeouts(
                  [TimeoutAction(s, a) EXCEPT !.awaiting = RemoveAt(@, i)], i, now)
         ELSE WalkTimeouts(s, i + 1, now)

\* Mutant: an action that has timed out stays on the list.
RECURSIVE WalkTimeoutsKeeping(_, _, _)
WalkTimeoutsKeeping(s, i, now) ==
    IF i > Len(s.awaiting)
    THEN s
    ELSE LET a == s.awaiting[i] IN
         IF now >= a.expiration
         THEN WalkTimeoutsKeeping(TimeoutAction(s, a), i + 1, now)
         ELSE WalkTimeoutsKeeping(s, i + 1, now)

ProcessTimeoutsKeeping(s) == WalkTimeoutsKeeping(s, 1, s.currentTime)

ProcessTimeouts(s) == WalkTimeouts(s, 1, s.currentTime)


\* ------------------------------------------------------------- public API
\* What PostAction and the transport callbacks leave alone: the members of
\* Impl that the worker thread uses, what the worker has done, and the
\* connections.
memberVars ==
    <<connection, dataReceived, anonymous, loggedIn, actionsAwaitingResponses,
      capsSupported, log, queued, ub, diagnostics>>

\* wakeWorker.notify_one(): the worker is woken if it is in its wait, and
\* nothing is kept of the notification if it is not.
NotifyOne == notified' = (notified \/ pc = "wait")

\* Mutant: the action is performed by the thread that posts it.
PostActionInline(a) ==
    /\ mutex = ""
    /\ Len(actionsToBePerformed) < mailboxBound
    /\ UNCHANGED <<actionsToBePerformed, notified>>
    /\ Install(PerformAction(Session, a, TRUE))

\* Mutant: the action is put at the front of the mailbox.
PostActionFront(a) ==
    /\ mutex = ""
    /\ Len(actionsToBePerformed) < mailboxBound
    /\ actionsToBePerformed' = <<a>> \o actionsToBePerformed
    /\ NotifyOne
    /\ UNCHANGED <<memberVars, conns>>

\* Mutant: the action is put in the mailbox and wakeWorker is not notified.
PostActionUnnotified(a) ==
    /\ mutex = ""
    /\ Len(actionsToBePerformed) < mailboxBound
    /\ actionsToBePerformed' = Append(actionsToBePerformed, a)
    /\ UNCHANGED <<memberVars, conns, notified>>

\* Impl::PostAction, and the same three lines in the transport callbacks:
\* under the mutex, the action is put at the back of the mailbox and
\* wakeWorker is notified.
PostAction(a) ==
    /\ mutex = ""
    /\ Len(actionsToBePerformed) < mailboxBound
    /\ actionsToBePerformed' = Append(actionsToBePerformed, a)
    /\ NotifyOne
    /\ UNCHANGED <<memberVars, conns>>

ApiCall ==
    /\ ~stopWorker
    /\ apiCalls < MaxApiCalls
    /\ apiCalls' = apiCalls + 1

workerVars ==
    <<connection, dataReceived, anonymous, loggedIn, actionsAwaitingResponses,
      capsSupported, pc, log, last, queued, ub, diagnostics>>

LogIn ==
    /\ ApiCall
    /\ PostAction(NewAction("LogIn", Nickname, Token, <<>>, FALSE))
    /\ UNCHANGED <<pc, last, threadVars, stopWorker, timeKeeper, currentTime,
                   serverMidLine, receives>>

LogInAnonymously ==
    /\ ApiCall
    /\ PostAction(NewAction("LogIn", AnonymousNickname, <<>>, <<>>, TRUE))
    /\ UNCHANGED <<pc, last, threadVars, stopWorker, timeKeeper, currentTime,
                   serverMidLine, receives>>

LogOut ==
    /\ ApiCall
    /\ \E farewell \in Farewells :
          PostAction(NewAction("LogOut", <<>>, <<>>, farewell, FALSE))
    /\ UNCHANGED <<pc, last, threadVars, stopWorker, timeKeeper, currentTime,
                   serverMidLine, receives>>

Join ==
    /\ ApiCall
    /\ PostAction(NewAction("Join", Channel, <<>>, <<>>, FALSE))
    /\ UNCHANGED <<pc, last, threadVars, stopWorker, timeKeeper, currentTime,
                   serverMidLine, receives>>

Leave ==
    /\ ApiCall
    /\ PostAction(NewAction("Leave", Channel, <<>>, <<>>, FALSE))
    /\ UNCHANGED <<pc, last, threadVars, stopWorker, timeKeeper, currentTime,
                   serverMidLine, receives>>

SendMessage ==
    /\ ApiCall
    /\ PostAction(NewAction("SendMessage", Channel, <<>>, MessageText, FALSE))
    /\ UNCHANGED <<pc, last, threadVars, stopWorker, timeKeeper, currentTime,
                   serverMidLine, receives>>

SendWhisper ==
    /\ ApiCall
    /\ PostAction(NewAction("SendWhisper", Nickname, <<>>, MessageText, FALSE))
    /\ UNCHANGED <<pc, last, threadVars, stopWorker, timeKeeper, currentTime,
                   serverMidLine, receives>>

\* Impl::StopWorker, called by the destructor.
StopWorker ==
    /\ ~stopWorker
    /\ mutex = ""
    /\ stopWorker' = TRUE
    /\ NotifyOne
    /\ atStop' = [pc |-> pc, logLen |-> Len(log), performed |-> Len(performed),
                  pending |-> actionsToBePerformed]
    /\ UNCHANGED <<workerVars, mutex, action, performed, mailboxBound,
                   parsed, twin,
                   actionsToBePerformed, conns, timeKeeper, currentTime,
                   serverMidLine, apiCalls, receives>>

\* ---------------------------------------------------------- the transport
\* The transport calls the delegates of a connection between its successful
\* Connect and its Disconnect, and not after it has reported the close.
Live(c) ==
    /\ c # 0
    /\ conns[c].isConnected
    /\ ~conns[c].isDisconnected
    /\ ~conns[c].closedByServer

\* What one receive callback can carry, the server sending the lines of
\* frames and cutting those of splits in two before the CRLF: a whole line,
\* the head of a line, and, when the head of a line has been sent, its CRLF
\* alone or followed by one more whole line.
Chunks(midLine, frames, splits) ==
    IF midLine
    THEN {<<CRLF>>} \cup {<<CRLF, f, CRLF>> : f \in splits}
    ELSE {<<f, CRLF>> : f \in frames} \cup {<<f>> : f \in splits}

OnMessageReceived(frames, splits) ==
    /\ Live(connection)
    /\ receives < MaxReceives
    /\ receives' = receives + 1
    /\ \E rawText \in Chunks(serverMidLine, frames, splits) :
          /\ PostAction(NewAction("ProcessMessagesReceived", <<>>, <<>>,
                                  rawText, FALSE))
          /\ serverMidLine' = (rawText[Len(rawText)] # CRLF)
    /\ UNCHANGED <<pc, last, threadVars, stopWorker, timeKeeper, currentTime,
                   apiCalls>>

\* The transport reports that the server has closed the connection.
OnServerDisconnected ==
    /\ Live(connection)
    /\ mutex = ""
    /\ Len(actionsToBePerformed) < mailboxBound
    /\ actionsToBePerformed' =
           Append(actionsToBePerformed,
                  NewAction("ServerDisconnected", <<>>, <<>>, <<>>, FALSE))
    /\ NotifyOne
    /\ conns' = [conns EXCEPT ![connection].closedByServer = TRUE]
    /\ UNCHANGED <<memberVars, pc, last, threadVars, stopWorker, timeKeeper,
                   currentTime, serverMidLine, apiCalls, receives>>

\* ------------------------------------------------------------- the clock
\* The values the mock clock is set to: the multiples of the log-in timeout
\* and the values one second after them.
ClockValues == {t \in 0..MaxTime : t % LOG_IN_TIMEOUT_SECONDS \in {0, 1}}

AdvanceTime ==
    /\ timeKeeper
    /\ \E t \in ClockValues : t > currentTime /\ currentTime' = t
    /\ UNCHANGED <<workerVars, threadVars, stopWorker, actionsToBePerformed,
                   conns, timeKeeper, serverMidLine, apiCalls, receives,
                   notified>>

\* ------------------------------------------------------------ Impl::Worker
\* The worker thread is at one of four places of Impl::Worker:
\*   "start"    before the first test of while (!stopWorker);
\*   "timeouts" the mutex released, before ProcessTimeouts;
\*   "drain"    holding the mutex at the test of the inner while loop, or,
\*              the mailbox being empty, in the wait that follows it;
\*   "done"     out of the loop.
sessionVars ==
    <<connection, dataReceived, anonymous, loggedIn, actionsAwaitingResponses,
      capsSupported, conns, log, last, queued, ub, diagnostics>>

\* The record kept in last, for the last step of the worker that performed
\* an action ("Perform") or swept the time-outs ("Timeouts"): the step, the action
\* performed, the lines the step took off dataReceived, and the state before
\* the step, with, for a sweep, the time ProcessTimeouts read from the clock.
\* Nothing but the worker changes the session, so the session after the
\* step is the present one.
Step(op, a, lines) ==
    [op |-> op, action |-> a, lines |-> lines,
     connection |-> connection, loggedIn |-> loggedIn, anonymous |-> anonymous,
     awaiting |-> actionsAwaitingResponses, logLen |-> Len(log),
     capsSupported |-> capsSupported, dataReceived |-> dataReceived,
     conns |-> conns,
     now |-> IF op = "Timeouts" THEN currentTime ELSE 0]

NoAction == NewAction("", <<>>, <<>>, <<>>, FALSE)

\* The complete lines at the front of a buffer, in order.
RECURSIVE LinesIn(_)
LinesIn(buffer) ==
    LET r == Parse(buffer) IN
    IF r.ok THEN <<r.line>> \o LinesIn(r.rest) ELSE <<>>

\* The first test of while (!stopWorker).
WorkerStart ==
    /\ pc = "start"
    /\ pc' = IF stopWorker THEN "done" ELSE "timeouts"
    /\ UNCHANGED <<stopWorker, actionsToBePerformed, sessionVars,
                   envVars, threadVars>>

\* lock.unlock(); if (timeKeeper != nullptr) ProcessTimeouts(); lock.lock();
WorkerTimeouts ==
    /\ pc = "timeouts"
    /\ pc' = "drain"
    /\ LET s == IF timeKeeper THEN ProcessTimeouts(Session) ELSE Session IN
          /\ Install(s)
          /\ last' = IF timeKeeper THEN Step("Timeouts", NoAction, <<>>)
                     ELSE last
    /\ UNCHANGED <<stopWorker, actionsToBePerformed, envVars, threadVars>>

\* One turn of the inner while loop: the front action is popped under the
\* mutex and performed without it.  connectOk is the result of the
\* Connection::Connect call a LogIn action makes.
WorkerPerform ==
    /\ pc = "drain"
    /\ actionsToBePerformed # <<>>
    /\ actionsToBePerformed' = Tail(actionsToBePerformed)
    /\ LET popped == Head(actionsToBePerformed) IN
       \E connectOk \in BOOLEAN :
          /\ (popped.type = "LogIn" /\ connection = 0) \/ connectOk
          /\ Install(PerformAction(Session, popped, connectOk))
          /\ last' = Step("Perform", popped,
                          IF popped.type = "ProcessMessagesReceived"
                          THEN LinesIn(dataReceived \o popped.message)
                          ELSE <<>>)
    /\ UNCHANGED <<pc, stopWorker, envVars, threadVars>>

\* The mailbox is empty and the worker waits on wakeWorker.  The wait ends
\* when its predicate holds (stopWorker, or the mailbox is not empty: then
\* the worker goes round the outer loop) or, for the wait_for taken when
\* actions await responses, when 50 ms have passed.  The worker returns from
\* the wait holding the mutex and tests while (!stopWorker).
WorkerWake ==
    /\ pc = "drain"
    /\ \/ stopWorker
       \/ actionsToBePerformed # <<>>
       \/ actionsAwaitingResponses # <<>>
    /\ pc' = IF stopWorker THEN "done" ELSE "timeouts"
    /\ UNCHANGED <<stopWorker, actionsToBePerformed, sessionVars,
                   envVars, threadVars>>

\* --------------------------------------------- Impl::Worker, lock by lock
\* In SpecThreads the worker takes one step for each stretch of Impl::Worker
\* between two operations on the mutex, and is at one of these places:
\*   "start"    before the constructor of lock, which locks the mutex;
\*   "test"     holding the mutex, at the test of while (!stopWorker);
\*   "sweep"    the mutex released, before ProcessTimeouts;
\*   "lock"     before a lock.lock() that leads to the inner while loop;
\*   "inner"    holding the mutex, at the test of the inner while loop;
\*   "perform"  the mutex released, before PerformAction(std::move(action));
\*   "wait"     in wakeWorker.wait or wait_for, the mutex released;
\*   "done"     out of the loop, the mutex released.
WorkerBegin ==
    /\ pc = "start"
    /\ mutex = ""
    /\ mutex' = "worker"
    /\ pc' = "test"
    /\ UNCHANGED <<stopWorker, actionsToBePerformed, sessionVars, envVars,
                   action, performed, atStop, mailboxBound, parsed, twin>>

\* while (!stopWorker) { lock.unlock();
WorkerTest ==
    /\ pc = "test"
    /\ mutex' = ""
    /\ pc' = IF stopWorker THEN "done" ELSE "sweep"
    /\ UNCHANGED <<stopWorker, actionsToBePerformed, sessionVars, envVars,
                   action, performed, atStop, mailboxBound, parsed, twin>>

\* if (timeKeeper != nullptr) { ProcessTimeouts(); }
WorkerSweep ==
    /\ pc = "sweep"
    /\ pc' = "lock"
    /\ LET s == IF timeKeeper THEN ProcessTimeouts(Session) ELSE Session IN
          /\ Install(s)
          /\ last' = IF timeKeeper THEN Step("Timeouts", NoAction, <<>>)
                     ELSE last
    /\ UNCHANGED <<stopWorker, actionsToBePerformed, envVars, threadVars>>

\* lock.lock();
WorkerLock ==
    /\ pc = "lock"
    /\ mutex = ""
    /\ mutex' = "worker"
    /\ pc' = "inner"
    /\ UNCHANGED <<stopWorker, actionsToBePerformed, sessionVars, envVars,
                   action, performed, atStop, mailboxBound, parsed, twin>>

\* Mutant: the mutex is kept while the action is performed.
WorkerPopLocked ==
    /\ pc = "inner"
    /\ actionsToBePerformed # <<>>
    /\ action' = Head(actionsToBePerformed)
    /\ actionsToBePerformed' = Tail(actionsToBePerformed)
    /\ performed' = Append(performed, Head(actionsToBePerformed))
    /\ pc' = "perform"
    /\ UNCHANGED <<stopWorker, sessionVars, envVars, mutex, atStop,
                   mailboxBound, parsed, twin>>

\* auto action = actionsToBePerformed.front();
\* actionsToBePerformed.pop_front(); lock.unlock();
WorkerPop ==
    /\ pc = "inner"
    /\ actionsToBePerformed # <<>>
    /\ action' = Head(actionsToBePerformed)
    /\ actionsToBePerformed' = Tail(actionsToBePerformed)
    /\ performed' = Append(performed, Head(actionsToBePerformed))
    /\ mutex' = ""
    /\ pc' = "perform"
    /\ UNCHANGED <<stopWorker, sessionVars, envVars, atStop, mailboxBound,
                   parsed, twin>>

\* PerformAction(std::move(action));
WorkerRun ==
    /\ pc = "perform"
    /\ pc' = "lock"
    /\ \E connectOk \in BOOLEAN :
          /\ (action.type = "LogIn" /\ connection = 0) \/ connectOk
          /\ Install(PerformAction(Session, action, connectOk))
          /\ last' = Step("Perform", action,
                          IF action.type = "ProcessMessagesReceived"
                          THEN LinesIn(dataReceived \o action.message)
                          ELSE <<>>)
    /\ UNCHANGED <<stopWorker, actionsToBePerformed, envVars, threadVars>>

\* What the steps of the wait leave alone.
waitVars ==
    <<stopWorker, actionsToBePerformed, sessionVars, timeKeeper, currentTime,
      serverMidLine, apiCalls, receives, action, performed, atStop,
      mailboxBound, parsed, twin>>

\* The mailbox is empty: wakeWorker.wait or wait_for tests its predicate,
\* returns if it holds, and otherwise releases the mutex and blocks, in one
\* step.
WorkerWait ==
    /\ pc = "inner"
    /\ actionsToBePerformed = <<>>
    /\ mutex' = IF stopWorker THEN mutex ELSE ""
    /\ pc' = IF stopWorker THEN "test" ELSE "wait"
    /\ notified' = FALSE
    /\ UNCHANGED waitVars

\* Mutant: a worker that wakes up goes on with the body of its loop.
WorkerWakeUpIntoLoop ==
    /\ pc = "wait"
    /\ mutex = ""
    /\ notified \/ actionsAwaitingResponses # <<>>
    /\ pc' = "sweep"
    /\ notified' = FALSE
    /\ UNCHANGED <<waitVars, mutex>>

\* Mutant: the predicate of the wait tests the mailbox only.
WorkerWakeUpForMailbox ==
    /\ pc = "wait"
    /\ mutex = ""
    /\ notified \/ actionsAwaitingResponses # <<>>
    /\ IF actionsToBePerformed # <<>> \/ actionsAwaitingResponses # <<>>
       THEN mutex' = "worker" /\ pc' = "test"
       ELSE mutex' = "" /\ pc' = "wait"
    /\ notified' = FALSE
    /\ UNCHANGED waitVars

\* Mutant: the wait has no time-out, whatever awaits a response.
WorkerWakeUpUncapped ==
    /\ pc = "wait"
    /\ mutex = ""
    /\ notified
    /\ IF stopWorker \/ actionsToBePerformed # <<>>
       THEN mutex' = "worker" /\ pc' = "test"
       ELSE mutex' = "" /\ pc' = "wait"
    /\ notified' = FALSE
    /\ UNCHANGED waitVars

\* The worker is woken in its wait, by a notification or, in the wait_for
\* taken when actions await responses, by the end of the 50 ms.  It takes
\* the mutex and tests the predicate: the wait ends if the predicate holds
\* or the 50 ms are over, and the worker blocks again if not.  (A wake-up
\* that nothing has caused finds the predicate false and ends in the same
\* block.)
WorkerWakeUp ==
    /\ pc = "wait"
    /\ mutex = ""
    /\ notified \/ actionsAwaitingResponses # <<>>
    /\ IF \/ stopWorker
          \/ actionsToBePerformed # <<>>
          \/ actionsAwaitingResponses # <<>>
       THEN mutex' = "worker" /\ pc' = "test"
       ELSE mutex' = "" /\ pc' = "wait"
    /\ notified' = FALSE
    /\ UNCHANGED waitVars

\* ------------------------------------------------------ the caller threads
Callers == {"A", "B"}

\* What caller t passes to its next call, as nickname, channel or farewell:
\* as many t as there have been calls, this one included.
Tag(t) == [i \in 1..(apiCalls + 1) |-> t]

TagOf(a) == IF a.type = "LogOut" THEN a.message ELSE a.nickname

\* A thread calls LogIn, LogOut or Join.
Call(t) ==
    /\ ApiCall
    /\ \E a \in {NewAction("LogIn", Tag(t), Token, <<>>, FALSE),
                 NewAction("LogOut", <<>>, <<>>, Tag(t), FALSE),
                 NewAction("Join", Tag(t), <<>>, <<>>, FALSE)} :
          PostAction(a)
    /\ UNCHANGED <<pc, last, threadVars, stopWorker, timeKeeper,
                   currentTime, serverMidLine, receives>>

\* ------------------------------------------------------- the specification
\* The object after its construction, with the given data in its buffer.
ConstructedWith(data) ==
    /\ stopWorker = FALSE
    /\ actionsToBePerformed = <<>>
    /\ connection = 0
    /\ dataReceived = data
    /\ anonymous = FALSE
    /\ loggedIn = FALSE
    /\ actionsAwaitingResponses = <<>>
    /\ capsSupported = {}
    /\ pc = "start"
    /\ timeKeeper = TRUE
    /\ currentTime = 0
    /\ conns = <<>>
    /\ serverMidLine = FALSE
    /\ log = <<>>
    /\ last = Step("", NoAction, <<>>)
    /\ queued = 0
    /\ ub = FALSE
    /\ notified = FALSE
    /\ apiCalls = 0
    /\ receives = 0
    /\ mutex = ""
    /\ action = NoAction
    /\ performed = <<>>
    /\ atStop = [pc |-> "", logLen |-> 0, performed |-> 0, pending |-> <<>>]
    /\ parsed = [called |-> FALSE, data |-> <<>>, ok |-> FALSE,
                 message |-> NewMessage]
    /\ diagnostics = [subscribed |-> FALSE, received |-> <<>>]
    /\ twin = Session

Constructed == ConstructedWith(<<>>)

Init == Constructed /\ mailboxBound = MaxQueue

\* The log-in handshake: every API call, the server sending handshake lines.
Next ==
    \/ LogIn
    \/ LogInAnonymously
    \/ LogOut
    \/ OnMessageReceived(HandshakeFrames, {})
    \/ OnServerDisconnected
    \/ AdvanceTime
    \/ WorkerStart
    \/ WorkerTimeouts
    \/ WorkerPerform
    \/ WorkerWake

Spec == Init /\ [][Next]_vars

\* The capability handshake: the same, the server also refusing CAP REQ.
NextCaps ==
    \/ LogIn
    \/ LogInAnonymously
    \/ LogOut
    \/ OnMessageReceived(CapFrames, {})
    \/ OnServerDisconnected
    \/ AdvanceTime
    \/ WorkerStart
    \/ WorkerTimeouts
    \/ WorkerPerform
    \/ WorkerWake

SpecCaps == Init /\ [][NextCaps]_vars

\* The refused log-in: the server answers with NOTICEs, and may cut the MOTD
\* line in two.
NextAuth ==
    \/ LogIn
    \/ LogOut
    \/ OnMessageReceived(AuthFrames, {"Motd"})
    \/ OnServerDisconnected
    \/ AdvanceTime
    \/ WorkerStart
    \/ WorkerTimeouts
    \/ WorkerPerform
    \/ WorkerWake

SpecAuth == Init /\ [][NextAuth]_vars


\* The chat: every API call, the server sending a short handshake and the
\* JOIN and PART lines of users; the clock stands still.
NextChat ==
    \/ LogIn
    \/ LogInAnonymously
    \/ LogOut
    \/ Join
    \/ Leave
    \/ SendMessage
    \/ SendWhisper
    \/ OnMessageReceived(ChatFrames, {})
    \/ WorkerStart
    \/ WorkerTimeouts
    \/ WorkerPerform
    \/ WorkerWake

SpecChat == Init /\ [][NextChat]_vars

\* The threads: two callers, the transport closing the connection, the
\* clock, the destructor, and the worker lock by lock.
InitThreads == Constructed /\ mailboxBound = MaxPending

NextThreads ==
    \/ \E t \in Callers : Call(t)
    \/ OnServerDisconnected
    \/ AdvanceTime
    \/ StopWorker
    \/ WorkerBegin
    \/ WorkerTest
    \/ WorkerSweep
    \/ WorkerLock
    \/ WorkerPop
    \/ WorkerRun
    \/ WorkerWait
    \/ WorkerWakeUp

SpecThreads == InitThreads /\ [][NextThreads]_vars

\* The parser alone: the buffer holds any characters, or a line of the
\* server followed by any characters, and Message::Parse is called until it
\* returns false, as the loop of PerformActionProcessMessagesReceived does.
ParseAlphabet == {CR, LF, ":", " ", "@", "x"}

RECURSIVE Strings(_)
Strings(n) ==
    IF n = 0
    THEN {<<>>}
    ELSE LET shorter == Strings(n - 1)
         IN  shorter \cup {Append(str, c) : str \in shorter, c \in ParseAlphabet}

ParseInputs ==
    Strings(MaxLen)
        \cup {RoomStateLine(name) \o <<CR, LF>> \o str :
                  name \in RoomFrames, str \in Strings(1)}

ParseNext ==
    /\ LET r == MessageParse(dataReceived, parsed.message) IN
          /\ dataReceived' = r.dataReceived
          /\ parsed' = [called |-> TRUE, data |-> dataReceived, ok |-> r.ok,
                        message |-> r.message]
    /\ UNCHANGED <<stopWorker, actionsToBePerformed, connection, anonymous,
                   loggedIn, actionsAwaitingResponses, capsSupported, pc,
                   conns, log, last, queued, ub, envVars, mutex, action,
                   performed, atStop, mailboxBound, diagnostics, twin>>

InitParse ==
    \E data \in ParseInputs : ConstructedWith(data) /\ mailboxBound = MaxQueue

SpecParse == InitParse /\ [][ParseNext]_vars

\* The room: a log-in, and the server sending ROOMSTATE lines with and
\* without tags.
NextRoom ==
    \/ LogIn
    \/ OnMessageReceived(RoomFrames, {})
    \/ WorkerStart
    \/ WorkerTimeouts
    \/ WorkerPerform
    \/ WorkerWake

SpecRoom == Init /\ [][NextRoom]_vars

\* The keep-alive: a log-in and a log-out, the server sending PING lines,
\* whole or cut in two, and the worker lock by lock.
NextPing ==
    \/ LogIn
    \/ LogOut
    \/ OnMessageReceived(PingFrames, PingFrames \ {"PingBare"})
    \/ WorkerBegin
    \/ WorkerTest
    \/ WorkerSweep
    \/ WorkerLock
    \/ WorkerPop
    \/ WorkerRun
    \/ WorkerWait
    \/ WorkerWakeUp

SpecPing == Init /\ [][NextPing]_vars

\* Lines with few parameters: a CAP LS line that announces more and has no
\* list, and HOSTTARGET lines with two, one and no parts after the channel.
HostFrames == {"CapLsStar", "HostOn", "HostOff", "HostNoViewers", "HostBare"}

NextHost ==
    \/ LogIn
    \/ OnMessageReceived(HostFrames, {})
    \/ WorkerStart
    \/ WorkerTimeouts
    \/ WorkerPerform
    \/ WorkerWake

SpecHost == Init /\ [][NextHost]_vars

\* The stream: a log-in, and the server sending the handshake, the MOTD and
\* a PING, every line whole or cut in two before its CRLF.
StreamFrames == {"CapLsFull", "CapAck", "Motd", "Ping"}

NextStream ==
    \/ LogIn
    \/ OnMessageReceived(StreamFrames, StreamFrames)
    \/ WorkerStart
    \/ WorkerTimeouts
    \/ WorkerPerform
    \/ WorkerWake

SpecStream == Init /\ [][NextStream]_vars

\* The worker at length: a caller logging in, the clock, the destructor, and
\* the worker lock by lock.  The worker thread is scheduled, the mutex is
\* free again after each step of the other threads, PerformAction and
\* ProcessTimeouts return, and the 50 ms of a wait_for come to an end: so the
\* worker takes a step in the end whenever it has one to take.  Nothing is
\* asked of the caller, of the clock and of the destructor, which may stop
\* at any time.
NextLive ==
    \/ LogIn
    \/ AdvanceTime
    \/ StopWorker
    \/ WorkerBegin
    \/ WorkerTest
    \/ WorkerSweep
    \/ WorkerLock
    \/ WorkerPop
    \/ WorkerRun
    \/ WorkerWait
    \/ WorkerWakeUp

\* A step of the worker thread.
Worker ==
    \/ WorkerBegin
    \/ WorkerTest
    \/ WorkerSweep
    \/ WorkerLock
    \/ WorkerPop
    \/ WorkerRun
    \/ WorkerWait
    \/ WorkerWakeUp

WorkerFairness == WF_vars(Worker)

SpecLive == Init /\ [][NextLive]_vars /\ WorkerFairness

\* The mailbox at length: a caller logging in, the transport delivering
\* lines of the server, before and after the destructor has set stopWorker,
\* the destructor, and the worker lock by lock, scheduled as in SpecLive.
NextMailbox ==
    \/ LogIn
    \/ OnMessageReceived({"Motd"}, {})
    \/ StopWorker
    \/ WorkerBegin
    \/ WorkerTest
    \/ WorkerSweep
    \/ WorkerLock
    \/ WorkerPop
    \/ WorkerRun
    \/ WorkerWait
    \/ WorkerWakeUp

SpecMailbox == Init /\ [][NextMailbox]_vars /\ WorkerFairness

\* The diagnostics: two runs side by side.  The variables hold the run in
\* which LogIn is given Token; twin holds the worker-side state of a run in
\* which every call, every line of the server, every result of Connect and
\* every reading of the clock is the same and LogIn is given OtherToken.  The
\* callers and the transport do to the mailbox of that run what they do to
\* this one's, so it is this one's with the other token in its LogIn actions.
OtherToken == <<"zyx98wvu76tsr54">>

WithToken(a, token) ==
    IF a.type = "LogIn" /\ ~a.anonymous THEN [a EXCEPT !.token = token] ELSE a

TwinSession ==
    [twin EXCEPT !.timeKeeper = timeKeeper, !.currentTime = currentTime]

\* Messaging::SubscribeToDiagnostics, by the same caller in both runs.
SubscribeToDiagnostics ==
    /\ ~stopWorker
    /\ ~diagnostics.subscribed
    /\ diagnostics' = [diagnostics EXCEPT !.subscribed = TRUE]
    /\ twin' = [twin EXCEPT !.diagnostics.subscribed = TRUE]
    /\ UNCHANGED <<stopWorker, actionsToBePerformed, connection, dataReceived,
                   anonymous, loggedIn, actionsAwaitingResponses,
                   capsSupported, pc, conns, log, last, queued, ub, envVars,
                   mutex, action, performed, atStop, mailboxBound, parsed>>

\* WorkerTimeouts, in both runs.
WorkerTimeoutsInBoth ==
    /\ pc = "timeouts"
    /\ pc' = "drain"
    /\ Install(IF timeKeeper THEN ProcessTimeouts(Session) ELSE Session)
    /\ twin' = IF timeKeeper THEN ProcessTimeouts(TwinSession) ELSE twin
    /\ last' = IF timeKeeper THEN Step("Timeouts", NoAction, <<>>) ELSE last
    /\ UNCHANGED <<stopWorker, actionsToBePerformed, envVars, mutex, action,
                   performed, atStop, mailboxBound, parsed>>

\* WorkerPerform, in both runs.
WorkerPerformInBoth ==
    /\ pc = "drain"
    /\ actionsToBePerformed # <<>>
    /\ actionsToBePerformed' = Tail(actionsToBePerformed)
    /\ LET popped == Head(actionsToBePerformed) IN
       \E connectOk \in BOOLEAN :
          /\ (popped.type = "LogIn" /\ connection = 0) \/ connectOk
          /\ Install(PerformAction(Session, popped, connectOk))
          /\ twin' = PerformAction(TwinSession, WithToken(popped, OtherToken),
                                   connectOk)
          /\ last' = Step("Perform", popped,
                          IF popped.type = "ProcessMessagesReceived"
                          THEN LinesIn(dataReceived \o popped.message)
                          ELSE <<>>)
    /\ UNCHANGED <<pc, stopWorker, envVars, mutex, action, performed, atStop,
                   mailboxBound, parsed>>

\* The lines the server sends in SpecDiag: the end of the capability list,
\* the answer to CAP REQ and the MOTD; the clock stands still.
DiagFrames == {"CapLsFull", "CapAck", "Motd"}

NextDiag ==
    \/ SubscribeToDiagnostics
    \/ LogIn
    \/ LogInAnonymously
    \/ LogOut
    \/ OnMessageReceived(DiagFrames, {})
    \/ WorkerStart
    \/ WorkerTimeoutsInBoth
    \/ WorkerPerformInBoth
    \/ WorkerWake

SpecDiag == Init /\ [][NextDiag]_vars


\* ============================================================== history
\* The events of the log that satisfy Test(e), in order.
Events(Test(_)) == SelectSeq(log, Test)

Count(Test(_)) == Len(SelectSeq(log, Test))

\* The lines sent on connection c, in order, each without its CRLF.
LinesSent(c) ==
    LET sends == SelectSeq(log, LAMBDA e : e.kind = "Send" /\ e.conn = c)
    IN  [i \in DOMAIN sends |-> SubSeq(sends[i].arg, 1, Len(sends[i].arg) - 1)]

IsUserCall(e, name) == e.kind = "User" /\ e.arg[1] = name

IsPrefix(p, q) == Len(p) <= Len(q) /\ SubSeq(q, 1, Len(p)) = p

Connections == 1..Len(conns)

\* ================================================================== C1
\* The place of a line in the log-in sequence, 0 for any other line.
LoginRank(line) ==
    CASE line = <<"CAP LS 302">> -> 1
      [] line[1] = "CAP REQ :twitch.tv/commands twitch.tv/membership twitch.tv/tags" -> 2
      [] line = <<"CAP END">> -> 3
      [] line[1] = "PASS oauth:" -> 4
      [] line[1] = "NICK " -> 5
      [] OTHER -> 0

\* The ranks of the log-in lines sent on connection c, in order.
LoginRanks(c) ==
    LET lines == LinesSent(c)
        login == SelectSeq(lines, LAMBDA l : LoginRank(l) # 0)
    IN  [i \in DOMAIN login |-> LoginRank(login[i])]

LoginOrders(withPass) ==
    IF withPass
    THEN {<<1, 2, 3, 4, 5>>, <<1, 3, 4, 5>>}
    ELSE {<<1, 2, 3, 5>>, <<1, 3, 5>>}

\* C1: on every connection the log-in lines sent so far are the beginning of
\* CAP LS 302, [CAP REQ], CAP END, [PASS], NICK, so that NICK is never sent
\* before CAP END; on the current connection PASS is part of the sequence
\* exactly when the session is not anonymous.
C1_LoginLinesInOrder ==
    /\ \A c \in Connections :
          LET ranks == LoginRanks(c) IN
          \E o \in LoginOrders(TRUE) \cup LoginOrders(FALSE) :
              IsPrefix(ranks, o)
    /\ \A c \in Connections :
          LET ranks == LoginRanks(c) IN
          \A i \in DOMAIN ranks :
              ranks[i] = 5 => \E j \in 1..(i - 1) : ranks[j] = 3
    /\ connection # 0 =>
          LET ranks == LoginRanks(connection) IN
          \E o \in LoginOrders(~anonymous) : IsPrefix(ranks, o)

\* A connection on which the whole sequence, CAP REQ and PASS included, was sent.
C1_Witness == \E c \in Connections : LoginRanks(c) = <<1, 2, 3, 4, 5>>


\* ================================================================== C2
\* The events the last step of the worker added to the log.
LastEvents == SubSeq(log, last.logLen + 1, Len(log))

Performed(type) == last.op = "Perform" /\ last.action.type = type

\* The last step performed a ProcessMessagesReceived action that took the
\* line of the frame named off the buffer.
Handled(name) ==
    /\ Performed("ProcessMessagesReceived")
    /\ \E i \in DOMAIN last.lines : last.lines[i] = <<name>>

\* C2: User.LogIn is invoked at most once on a connection, and a step that
\* handles a 376 frame when the session is already logged in invokes no
\* User.LogIn.
C2_LogInAtMostOnce ==
    /\ \A c \in Connections :
          Count(LAMBDA e : IsUserCall(e, "LogIn") /\ e.conn = c) <= 1
    /\ (Handled("Motd") /\ last.loggedIn) =>
          \A i \in DOMAIN LastEvents : ~IsUserCall(LastEvents[i], "LogIn")

\* A 376 frame was handled when the session was logged in.
C2_Witness == Handled("Motd") /\ last.loggedIn

\* ================================================================== C3
TimeoutFarewell(type) ==
    CASE type = "LogIn" -> <<"Timeout waiting for capability list">>
      [] type = "RequestCaps" ->
            <<"Timeout waiting for response to capability request">>
      [] type = "AwaitMotd" -> <<"Timeout waiting for MOTD">>

IsTimeoutOf(e, type) == e.kind = "Timeout" /\ e.arg = <<type>>

\* C3: when a LogIn, RequestCaps or AwaitMotd action is timed out, the next
\* things the worker does are to send the QUIT line of that phase on the
\* connection, to disconnect the connection and to call User.LogOut, once.
C3_TimeoutQuitsAndLogsOut ==
    \A i \in DOMAIN log :
        log[i].kind = "Timeout" =>
            /\ log[i].arg[1] \in {"LogIn", "RequestCaps", "AwaitMotd"}
            /\ log[i].conn # 0
            /\ i + 3 <= Len(log)
            /\ log[i + 1] = Event("Send", log[i].conn,
                   <<"QUIT :">> \o TimeoutFarewell(log[i].arg[1]) \o <<CRLF>>, 0)
            /\ log[i + 2] = Event("Disconnect", log[i].conn, <<>>, 0)
            /\ log[i + 3] = Event("User", log[i].conn, <<"LogOut">>, 0)
            /\ conns[log[i].conn].isDisconnected
            /\ (i + 4 <= Len(log) => ~IsUserCall(log[i + 4], "LogOut"))

\* The wait for the MOTD has timed out.
C3_Witness == \E i \in DOMAIN log : IsTimeoutOf(log[i], "AwaitMotd")

\* ================================================================== C4
\* C4: no awaiting action is timed out twice; an action that has been timed
\* out is not on the awaiting list; and actions are timed out only by a
\* sweep of ProcessTimeouts, which times out actions that were on the list
\* with an expiration the clock had reached.
C4_TimedOutAtMostOnce ==
    /\ \A i, j \in DOMAIN log :
          (log[i].kind = "Timeout" /\ log[j].kind = "Timeout" /\ log[i].id = log[j].id)
              => i = j
    /\ \A i \in DOMAIN log :
          log[i].kind = "Timeout" =>
              \A k \in DOMAIN actionsAwaitingResponses :
                  actionsAwaitingResponses[k].id # log[i].id
    /\ \A i \in DOMAIN LastEvents :
          LastEvents[i].kind = "Timeout" =>
              /\ last.op = "Timeouts"
              /\ \E k \in DOMAIN last.awaiting :
                    /\ last.awaiting[k].id = LastEvents[i].id
                    /\ last.awaiting[k].type = LastEvents[i].arg[1]
                    /\ currentTime >= last.awaiting[k].expiration

\* A sweep has timed an action out, and a later step of the worker has
\* performed an action.
C4_Witness ==
    /\ last.op = "Perform"
    /\ \E i \in 1..last.logLen : log[i].kind = "Timeout"


\* ================================================================== C5
IsAwaitMotd(a) == a.type = "AwaitMotd"

\* The connection c had been disconnected by the session before the last
\* step of the worker.
DisconnectedBefore(c) ==
    \E i \in 1..last.logLen : log[i].kind = "Disconnect" /\ log[i].conn = c

\* The last step handled a "Login unsuccessful" NOTICE while the session
\* was awaiting the MOTD.
AuthFailureBeforeMotd ==
    /\ Handled("NoticeUnsuccessful")
    /\ ~last.loggedIn
    /\ Len(SelectSeq(last.awaiting, IsAwaitMotd)) > 0

\* C5: once a "Login unsuccessful" NOTICE has been handled while the session
\* awaits the MOTD, no AwaitMotd action is awaiting a response any more, and
\* none of the actions that were awaiting the MOTD is timed out afterwards:
\* no "QUIT :Timeout waiting for MOTD" is sent and no User.LogOut follows
\* from a timeout.
C5_NoTimeoutAfterAuthFailure ==
    /\ AuthFailureBeforeMotd =>
          Len(SelectSeq(actionsAwaitingResponses, IsAwaitMotd)) = 0
    /\ \A i, j \in DOMAIN log :
          (/\ i < j
           /\ log[i] = Event("User", log[j].conn, <<"Notice", "Login unsuccessful">>, 0)
           /\ \E k \in 1..(i - 1) : log[k].kind = "Await" /\ log[k].id = log[j].id
           /\ \A k \in 1..i : ~IsUserCall(log[k], "LogIn"))
              => ~IsTimeoutOf(log[j], "AwaitMotd")

\* ================================================================== C6
\* C6: a step that handles a NOTICE with the text "Login unsuccessful" or
\* "Login authentication failed" before the session is logged in calls
\* User.LogOut.
C6_BothNoticesLogOut ==
    ((Handled("NoticeUnsuccessful") \/ Handled("NoticeAuthFailed")) /\ ~last.loggedIn) =>
        \E i \in DOMAIN LastEvents : IsUserCall(LastEvents[i], "LogOut")

\* ================================================================== C7
\* C7: a LogOut or ServerDisconnected action performed when the session has
\* already disconnected its connection sends nothing, disconnects nothing
\* and calls no User.LogOut.
C7_DisconnectIdempotent ==
    ((Performed("LogOut") \/ Performed("ServerDisconnected"))
        /\ (last.connection = 0 \/ DisconnectedBefore(last.connection))) =>
        LastEvents = <<>>

\* ================================================================== C8
\* C8: a LogIn action performed after the session has disconnected its
\* connection asks the factory for a new connection and, when that
\* connection connects, sends it "CAP LS 302".
C8_NewConnectionAfterDisconnect ==
    (Performed("LogIn") /\ last.connection # 0 /\ DisconnectedBefore(last.connection)) =>
        /\ Len(LastEvents) >= 2
        /\ LastEvents[1].kind = "Factory"
        /\ connection # last.connection
        /\ (LastEvents[2].arg = <<"ok">> =>
               /\ Len(LastEvents) >= 3
               /\ LastEvents[3] = Event("Send", connection, <<"CAP LS 302", CRLF>>, 0))

\* ================================================================== C9
\* The last step performed a LogIn action whose connection failed to
\* connect.
ConnectFailed ==
    /\ Performed("LogIn")
    /\ Len(LastEvents) >= 2
    /\ LastEvents[2].kind = "Connect"
    /\ LastEvents[2].arg = <<"failed">>

\* C9: a LogIn action whose connection fails to connect calls User.LogOut
\* exactly once, sends no line and adds no action to those awaiting a
\* response.
C9_ConnectFailureLogsOutOnce ==
    ConnectFailed =>
        /\ Len(LastEvents) = 3
        /\ LastEvents[1].kind = "Factory"
        /\ IsUserCall(LastEvents[3], "LogOut")
        /\ \A i \in DOMAIN LastEvents :
              LastEvents[i].kind \notin {"Send", "Await"}
        /\ actionsAwaitingResponses = last.awaiting

\* A LogIn action has been performed and its connection failed to connect.
C9_Witness == ConnectFailed

\* ================================================================== C10
\* C10: after a LogIn action whose connection failed to connect the session
\* holds no connection, and a LogIn action performed after a failed connect
\* asks the factory for a connection.
C10_FailedConnectionDiscarded ==
    /\ ConnectFailed => connection = 0
    /\ (Performed("LogIn") /\ last.connection # 0
           /\ ~conns[last.connection].isConnected) =>
          (Len(LastEvents) >= 1 /\ LastEvents[1].kind = "Factory")


\* ================================================================== C11
IsQuit(e) == e.kind = "Send" /\ e.arg[1] = "QUIT :"

\* The ServerDisconnected action of connection c was performed before the
\* last step of the worker: the server has closed c, and the action is
\* neither in the mailbox nor the one the last step performed.
ServerDisconnectedBefore(c) ==
    /\ c # 0
    /\ conns[c].closedByServer
    /\ \A i \in DOMAIN actionsToBePerformed :
          actionsToBePerformed[i].type # "ServerDisconnected"
    /\ ~Performed("ServerDisconnected")

\* C11: a ServerDisconnected action performed while a connection exists calls
\* User.LogOut and sends no QUIT line, and no later step of the worker sends
\* a QUIT line on that connection.
C11_ServerCloseSendsNoQuit ==
    /\ (Performed("ServerDisconnected") /\ last.connection # 0) =>
          /\ \E i \in DOMAIN LastEvents : IsUserCall(LastEvents[i], "LogOut")
          /\ \A i \in DOMAIN LastEvents : ~IsQuit(LastEvents[i])
    /\ \A i \in DOMAIN LastEvents :
          ServerDisconnectedBefore(LastEvents[i].conn) => ~IsQuit(LastEvents[i])

\* ================================================================== C12
\* C12: a LogOut action performed while a connection exists sends
\* "QUIT :<farewell>" if and only if the farewell is not empty, then calls
\* Connection::Disconnect, then calls User.LogOut, and does nothing else.
C12_LogOutSequence ==
    (Performed("LogOut") /\ last.connection # 0) =>
        LastEvents =
            (IF last.action.message # <<>>
             THEN <<Event("Send", last.connection,
                          <<"QUIT :">> \o last.action.message \o <<CRLF>>, 0)>>
             ELSE <<>>)
            \o <<Event("Disconnect", last.connection, <<>>, 0),
                 Event("User", last.connection, <<"LogOut">>, 0)>>

\* A LogOut action with a farewell has been performed on a connection.
C12_Witness ==
    Performed("LogOut") /\ last.connection # 0 /\ last.action.message # <<>>


\* ================================================================== C18
\* The connection c was opened for an anonymous session: it is the
\* connection of the session and the session is anonymous.
OpenedAnonymously(c) == c = connection /\ conns[c].isConnected /\ anonymous

\* C18: on a connection opened by LogInAnonymously no PASS line is sent, and
\* every CAP END sent on it is followed directly by NICK justinfan<digits>.
C18_AnonymousSendsNoPass ==
    \A c \in Connections :
        OpenedAnonymously(c) =>
            LET lines == LinesSent(c) IN
            \A i \in DOMAIN lines :
                /\ lines[i][1] # "PASS oauth:"
                /\ lines[i] = <<"CAP END">> =>
                      /\ i < Len(lines)
                      /\ lines[i + 1] = <<"NICK ">> \o AnonymousNickname
                      /\ AnonymousNickname[1] = "justinfan"

\* An anonymous session has authenticated.
C18_Witness ==
    \E c \in Connections :
        /\ OpenedAnonymously(c)
        /\ \E i \in DOMAIN LinesSent(c) : LinesSent(c)[i] = <<"CAP END">>


\* ================================================================== C17
\* Connection::Connect has returned true for connection c before event i.
ConnectedBefore(c, i) ==
    \E k \in 1..(i - 1) : log[k] = Event("Connect", c, <<"ok">>, 0)

\* C17: every Send is on a connection whose Connect has succeeded and on
\* which Disconnect has not been called yet; so a Join, Leave, SendMessage or
\* SendWhisper action performed when the session is not connected sends
\* nothing.
C17_SendOnlyWhileConnected ==
    \A i \in DOMAIN log :
        log[i].kind = "Send" =>
            /\ log[i].conn # 0
            /\ ConnectedBefore(log[i].conn, i)
            /\ \A k \in 1..(i - 1) :
                  ~(log[k].kind = "Disconnect" /\ log[k].conn = log[i].conn)

\* ================================================================== C19
\* C19: in an anonymous session a SendMessage or SendWhisper action does
\* nothing, and a Join or Leave action performed with a connection sends
\* its JOIN or PART line.
C19_AnonymousSendsNoMessages ==
    /\ ((Performed("SendMessage") \/ Performed("SendWhisper")) /\ last.anonymous) =>
          LastEvents = <<>>
    /\ (Performed("Join") /\ last.anonymous /\ last.connection # 0) =>
          LastEvents = <<Event("Send", last.connection,
                               <<"JOIN #">> \o last.action.nickname \o <<CRLF>>, 0)>>
    /\ (Performed("Leave") /\ last.anonymous /\ last.connection # 0) =>
          LastEvents = <<Event("Send", last.connection,
                               <<"PART #">> \o last.action.nickname \o <<CRLF>>, 0)>>

\* A SendMessage action has been performed in a connected anonymous session.
C19_Witness ==
    /\ Performed("SendMessage")
    /\ last.anonymous
    /\ last.connection # 0
    /\ conns[last.connection].isConnected

\* ================================================================== C20
\* C20: in an anonymous session, handling a JOIN or PART line whose prefix
\* names the session's own nickname calls neither User.Join nor User.Leave.
C20_NoCallbackForOwnAnonymousNick ==
    ((Handled("JoinAnon") \/ Handled("PartAnon")) /\ last.anonymous) =>
        \A i \in DOMAIN LastEvents :
            /\ ~IsUserCall(LastEvents[i], "Join")
            /\ ~IsUserCall(LastEvents[i], "Leave")


\* ================================================================== C13
\* Since stopWorker was set, the worker has popped no action, no callback of
\* User has been called, and the actions that were in the mailbox are there.
NothingSinceStop ==
    /\ Len(performed) = atStop.performed
    /\ \A i \in (atStop.logLen + 1)..Len(log) : log[i].kind # "User"
    /\ IsPrefix(atStop.pending, actionsToBePerformed)

\* C13 as stated: once stopWorker is set, no callback of User is called and
\* no action of the mailbox is performed, the actions pending at that moment
\* staying in the mailbox.
C13_NothingAfterStop == stopWorker => NothingSinceStop

\* C13, amended: when stopWorker is set while the worker is in its wait, or
\* has not reached its loop yet, no callback of User is called and no action
\* of the mailbox is performed afterwards, the actions pending at that
\* moment staying in the mailbox.
C13_NothingAfterStopWhileWaiting ==
    (stopWorker /\ atStop.pc \in {"wait", "start"}) => NothingSinceStop

\* stopWorker was set while the worker waited with an action in the mailbox,
\* and the worker has left its loop.
C13_Witness ==
    /\ stopWorker
    /\ atStop.pc = "wait"
    /\ atStop.pending # <<>>
    /\ pc = "done"

\* ================================================================== C14
\* A public API method or a transport callback has taken this step.
CallerStep ==
    \/ apiCalls' # apiCalls
    \/ receives' # receives
    \/ /\ Len(conns') = Len(conns)
       /\ \E c \in DOMAIN conns :
             conns'[c].closedByServer /\ ~conns[c].closedByServer

\* C14: a step of a public API method or of a transport callback takes the
\* free mutex, puts one action at the back of the mailbox and calls nothing;
\* every call on User and on the connections is made by a step of the worker
\* thread, in a timeout sweep or performing an action.
C14_CallbacksOnWorkerOnly ==
    [][/\ CallerStep =>
             /\ mutex = "" /\ mutex' = ""
             /\ log' = log
             /\ Len(actionsToBePerformed') = Len(actionsToBePerformed) + 1
             /\ SubSeq(actionsToBePerformed', 1, Len(actionsToBePerformed))
                   = actionsToBePerformed
       /\ log' # log =>
             /\ ~CallerStep
             /\ pc \in {"sweep", "perform"}
             /\ pc' = "lock"]_vars

\* Callers have made calls, the server has closed the connection, and User
\* has been called back.
C14_Witness ==
    /\ apiCalls >= 2
    /\ \E c \in Connections : conns[c].closedByServer
    /\ \E i \in DOMAIN log : log[i].kind = "User"

\* ================================================================== C15
\* C15: the worker does not hold the mutex where it sweeps the timeouts or
\* performs an action, and every call on a connection or on User is made by
\* such a step; so these calls are made with the mutex free, and a public
\* API method or a callback of the transport called from within them can
\* take it.
C15_MutexFreeWhilePerforming ==
    [][/\ pc \in {"sweep", "perform"} => mutex = ""
       /\ log' # log => (pc \in {"sweep", "perform"} /\ mutex = "" /\ mutex' = "")]_vars

\* The worker is about to perform a LogIn action, which calls the factory,
\* Connect and Send, with the mutex free and room for a call.
C15_Witness ==
    /\ pc = "perform"
    /\ action.type = "LogIn"
    /\ connection = 0
    /\ mutex = ""
    /\ apiCalls < MaxApiCalls
    /\ Len(actionsToBePerformed) < mailboxBound

\* ================================================================== C16
\* The actions posted and not lost, in the order the worker performs them:
\* those popped, then those in the mailbox.
Served == performed \o actionsToBePerformed

\* The actions of Served that callers have posted.
ServedCalls == SelectSeq(Served, LAMBDA a : TagOf(a) # <<>>)

\* C16: the worker pops the actions in the order they were posted, none of
\* them lost and none twice: the calls among the actions popped or pending
\* are as many as the calls made and carry growing tags, so that the calls
\* of one thread are performed in the order it made them; and the actions
\* of the transport among them are as many as its callbacks.
C16_MailboxIsFifo ==
    /\ Len(ServedCalls) = apiCalls
    /\ \A i \in DOMAIN ServedCalls : Len(TagOf(ServedCalls[i])) = i
    /\ \A i, j \in DOMAIN performed :
          (/\ i < j
           /\ TagOf(performed[i]) # <<>>
           /\ TagOf(performed[j]) # <<>>
           /\ TagOf(performed[i])[1] = TagOf(performed[j])[1])
              => Len(TagOf(performed[i])) < Len(TagOf(performed[j]))
    /\ Len(Served) - Len(ServedCalls)
          = Cardinality({c \in Connections : conns[c].closedByServer})

\* Two calls of one thread have been performed, with an action of the
\* transport between them.
C16_Witness ==
    \E i, j, k \in DOMAIN performed :
        /\ i < k /\ k < j
        /\ TagOf(performed[i]) # <<>>
        /\ TagOf(performed[j]) # <<>>
        /\ TagOf(performed[i])[1] = TagOf(performed[j])[1]
        /\ performed[k].type = "ServerDisconnected"

\* ================================================================== C21
\* The lines the last step of the worker sent, in order, each without its
\* CRLF.
LastLines ==
    LET sends == SelectSeq(LastEvents, LAMBDA e : e.kind = "Send")
    IN  [i \in DOMAIN sends |-> SubSeq(sends[i].arg, 1, Len(sends[i].arg) - 1)]

LastRanks == [i \in DOMAIN LastLines |-> LoginRank(LastLines[i])]

HasAwaiter(awaiting, type) == \E i \in DOMAIN awaiting : awaiting[i].type = type

\* The last step handled a CAP ACK or a CAP NAK line.
HandledCapAnswer == Handled("CapAck") \/ Handled("CapNak")

\* CAP REQ was sent on connection c before the last step.
CapReqSentBefore(c) ==
    \E i \in 1..last.logLen :
        /\ log[i].kind = "Send"
        /\ log[i].conn = c
        /\ LoginRank(SubSeq(log[i].arg, 1, Len(log[i].arg) - 1)) = 2

CapReqLine ==
    <<"CAP REQ :twitch.tv/commands twitch.tv/membership twitch.tv/tags">>

\* The capabilities the line of the frame named lists, for a CAP LS line
\* that is the last of the list (no "*" before the capabilities).
FinalLsCaps(name) == Range(Split(Frame(name).parameters[3]))

FinalLsFrames ==
    {name \in HandshakeFrames :
        LET p == Frame(name).parameters IN
        /\ Frame(name).command = <<"CAP">>
        /\ Len(p) >= 3
        /\ p[2] = <<"LS">>
        /\ p[3] # <<"*">>}

\* The last step handled the last line of the capability list while the
\* list was awaited.
HandledFinalLs(name) ==
    /\ name \in FinalLsFrames
    /\ Handled(name)
    /\ HasAwaiter(last.awaiting, "LogIn")

C22_WitnessMissing ==
    /\ HandledFinalLs("CapLsPart")
    /\ ~(CapsWanted \subseteq capsSupported)

\* ================================================================== C23
\* C23: a LogIn action performed when there is a connection already does
\* nothing: the factory is not called, no line is sent, no User callback is
\* made, nothing is added to the actions awaiting responses, and the
\* connection, the connections made, the anonymous flag, the logged-in flag,
\* the capabilities noted and the data buffered are as they were.
C23_LogInIgnoredWhenConnected ==
    (Performed("LogIn") /\ last.connection # 0) =>
        /\ LastEvents = <<>>
        /\ connection = last.connection
        /\ Len(conns) = Len(last.conns)
        /\ \A c \in Connections :
              /\ conns[c].isConnected = last.conns[c].isConnected
              /\ conns[c].isDisconnected = last.conns[c].isDisconnected
        /\ anonymous = last.anonymous
        /\ loggedIn = last.loggedIn
        /\ actionsAwaitingResponses = last.awaiting
        /\ capsSupported = last.capsSupported
        /\ dataReceived = last.dataReceived

\* A log-in of the other kind was performed when there was a connection
\* and a log-in awaiting its response.
C23_Witness ==
    /\ Performed("LogIn")
    /\ last.connection # 0
    /\ last.action.anonymous # last.anonymous
    /\ last.awaiting # <<>>

\* ================================================================== C24
LoggedInBefore(n) == \E i \in 1..n : IsUserCall(log[i], "LogIn")

IsFarewell(e) ==
    \/ e.kind = "Send" /\ e.arg[1] = "QUIT :"
    \/ e.kind = "Disconnect"
    \/ IsUserCall(e, "LogOut")

\* C24: once User.LogIn has been called no action is timed out: a sweep of
\* ProcessTimeouts, whatever the time it reads from the clock, sends
\* nothing, disconnects nothing, calls nothing and leaves the session as it
\* was, and a QUIT line, a Disconnect of the connection or a User.LogOut
\* comes only from a step that performs a LogOut or a ServerDisconnected
\* action.
C24_NoTimeoutAfterLogIn ==
    /\ \A i, j \in DOMAIN log :
          (i < j /\ IsUserCall(log[i], "LogIn")) => log[j].kind # "Timeout"
    /\ (last.op = "Timeouts" /\ LoggedInBefore(last.logLen)) =>
          /\ LastEvents = <<>>
          /\ connection = last.connection
          /\ loggedIn = last.loggedIn
          /\ actionsAwaitingResponses = last.awaiting
          /\ \A c \in Connections :
                conns[c].isDisconnected = last.conns[c].isDisconnected
    /\ (LoggedInBefore(last.logLen)
        /\ \E i \in DOMAIN LastEvents : IsFarewell(LastEvents[i]))
          => Performed("LogOut") \/ Performed("ServerDisconnected")

\* After the log-in the clock has been set to a time later than the
\* expiration of every action that had awaited a response, and the worker
\* has swept the time-outs at that time, the connection still open.
C24_Witness ==
    /\ last.op = "Timeouts"
    /\ LoggedInBefore(last.logLen)
    /\ last.now >= MaxTime
    /\ last.connection # 0
    /\ ~conns[last.connection].isDisconnected

\* ================================================================== C30
LoginAwaiters == {"LogIn", "RequestCaps", "AwaitMotd"}

\* The actions of the types given among those awaiting responses.
Awaiting(types) == SelectSeq(actionsAwaitingResponses, LAMBDA a : a.type \in types)

\* A log-in is in progress: the connection has been made and CAP LS 302
\* sent on it, and since then the session has neither logged in nor logged
\* out or disconnected.
LoginInProgress ==
    /\ connection # 0
    /\ LoginRanks(connection) # <<>>
    /\ \A i \in DOMAIN log :
          log[i].conn = connection =>
              /\ ~IsUserCall(log[i], "LogIn")
              /\ ~IsUserCall(log[i], "LogOut")
              /\ log[i].kind # "Disconnect"

\* The awaiter of the phase the lines sent on the connection have reached.
LoginPhase(c) ==
    LET r == LoginRanks(c) IN
    IF \E i \in DOMAIN r : r[i] = 3 THEN "AwaitMotd"
    ELSE IF \E i \in DOMAIN r : r[i] = 2 THEN "RequestCaps"
    ELSE "LogIn"

\* C30: the actions awaiting responses are log-in awaiters (LogIn,
\* RequestCaps, AwaitMotd), at most one of them at any time, so never two
\* AwaitMotd; and while a log-in is in progress there is exactly one, that
\* of the phase the log-in has reached.
C30_OneLoginAwaiter ==
    /\ Len(Awaiting(LoginAwaiters)) <= 1
    /\ Len(Awaiting({"AwaitMotd"})) <= 1
    /\ Len(actionsAwaitingResponses) = Len(Awaiting(LoginAwaiters))
    /\ LoginInProgress =>
          /\ Len(Awaiting(LoginAwaiters)) = 1
          /\ Awaiting(LoginAwaiters)[1].type = LoginPhase(connection)

\* A log-in is in progress and has reached the wait for the MOTD after a
\* capability request.
C30_Witness ==
    /\ LoginInProgress
    /\ LoginRanks(connection) = <<1, 2, 3, 4, 5>>

\* ================================================================== C25
\* The actions the worker has popped and performed.
Done == IF pc = "perform" THEN SubSeq(performed, 1, Len(performed) - 1)
        ELSE performed

\* What the transport has delivered in the actions given, in order.
RECURSIVE Delivered(_)
Delivered(actions) ==
    IF actions = <<>>
    THEN <<>>
    ELSE (IF Head(actions).type = "ProcessMessagesReceived"
          THEN Head(actions).message
          ELSE <<>>) \o Delivered(Tail(actions))

IsPing(line) ==
    /\ Unpack(line).command = <<"PING">>
    /\ Len(Unpack(line).parameters) >= 1

\* The answers to the PING lines among the lines given, in order.
PongsFor(lines) ==
    LET pings == SelectSeq(lines, IsPing)
    IN  [i \in DOMAIN pings |-> <<"PONG :">> \o Unpack(pings[i]).parameters[1]]

IsPong(line) == line[1] = "PONG :"

C25_WitnessOneStep ==
    /\ Performed("ProcessMessagesReceived")
    /\ Len(SelectSeq(LastLines, IsPong)) = 2

\* ================================================================== C26
IsTerminatorAt(data, i) ==
    i \in 1..(Len(data) - 1) /\ data[i] = CR /\ data[i + 1] = LF

\* C26: a call of Message::Parse on a buffer that holds a CR LF removes from
\* the front of the buffer the characters before the first CR LF and the CR
\* LF itself, position_of(CRLF) + 2 characters, and nothing else, returns
\* true, and gives the message of the line removed; on a buffer that holds
\* no CR LF it returns false and leaves the buffer as it was.
C26_ParseConsumesOneLine ==
    parsed.called =>
        LET data == parsed.data IN
        IF \E i \in DOMAIN data : IsTerminatorAt(data, i)
        THEN \E i \in DOMAIN data :
                /\ IsTerminatorAt(data, i)
                /\ \A j \in 1..(i - 1) : ~IsTerminatorAt(data, j)
                /\ parsed.ok
                /\ Len(dataReceived) = Len(data) - ((i - 1) + 2)
                /\ data = SubSeq(data, 1, i - 1) \o <<CR, LF>> \o dataReceived
                /\ parsed.message = UnpackLine(SubSeq(data, 1, i - 1))
        ELSE /\ ~parsed.ok
             /\ dataReceived = data

\* A line was removed from a buffer that began with a CR on its own and
\* held more after the line.
C26_Witness ==
    /\ parsed.called
    /\ parsed.ok
    /\ Len(parsed.data) >= 2
    /\ parsed.data[1] = CR
    /\ parsed.data[2] = CR
    /\ dataReceived # <<>>

\* The buffer holds characters and no line, and Message::Parse returned
\* false.
C26_WitnessNoLine ==
    /\ parsed.called
    /\ ~parsed.ok
    /\ Len(parsed.data) = MaxLen
    /\ parsed.data[MaxLen] = CR

\* ================================================================== C27
\* The line the last successful call of Message::Parse removed.
ParsedLine == SubSeq(parsed.data, 1, FindLineEnd(parsed.data) - 1)

\* The line begins with "@", some tags and a space.
HasTags(line) ==
    /\ Len(line) >= 3
    /\ line[1] = "@"
    /\ line[2] # " "
    /\ \E i \in DOMAIN line : line[i] = " "

\* What follows the first space of the line.
AfterTags(line) ==
    LET i == CHOOSE i \in DOMAIN line :
                 line[i] = " " /\ \A j \in 1..(i - 1) : line[j] # " "
    IN  SubSeq(line, i + 1, Len(line))

\* C27: the message of a line that begins with "@", tags and a space has
\* the prefix, the command and the parameters of what follows the tags, so
\* that its command is never the text of the tags.
C27_CommandAfterTags ==
    (parsed.called /\ parsed.ok /\ HasTags(ParsedLine)) =>
        /\ parsed.message.prefix = UnpackLine(AfterTags(ParsedLine)).prefix
        /\ parsed.message.command = UnpackLine(AfterTags(ParsedLine)).command
        /\ parsed.message.parameters
              = UnpackLine(AfterTags(ParsedLine)).parameters
        /\ (parsed.message.command = <<>> \/ parsed.message.command[1] # "@")

\* ================================================================== C28
\* The mode tags the ROOMSTATE line named carries, in the order of RoomModes.
ModesCarried(name) ==
    SelectSeq(RoomModes,
              LAMBDA mode : \E i \in DOMAIN RoomTags(name) :
                                RoomTags(name)[i][1] = mode)

\* The modes of the User.RoomModeChange callbacks of the last step.
ModesReported ==
    LET calls == SelectSeq(LastEvents, LAMBDA e : IsUserCall(e, "RoomModeChange"))
    IN  [i \in DOMAIN calls |-> calls[i].arg[4]]

\* C28: the step that handles a ROOMSTATE line for a channel calls
\* User.RoomModeChange once for each of the mode tags slow, followers-only,
\* r9k, emote-only and subs-only the line carries, and for no other mode.
C28_OneRoomModeChangePerTag ==
    \A name \in RoomFrames :
        Handled(name) => ModesReported = ModesCarried(name)


\* ---------------------------------------------------------------------------
\* C29: the diagnostic output does not depend on the OAuth token.  The run
\* in which LogIn is given the other token, and everything else is the same,
\* has published the same diagnostic messages, in the same order; and a
\* message published for an outbound PASS line is the redacted text, in
\* both runs.
IsPassText(text) ==
    /\ Len(text) >= 2
    /\ text[1] = "< "
    /\ text[2] = "PASS oauth:"

OnlyRedacted(received) ==
    \A i \in DOMAIN received :
        /\ IsPassText(received[i]) => received[i] = Redacted
        /\ \A j \in DOMAIN received[i] :
              received[i][j] \notin Range(Token) \cup Range(OtherToken)

C29_DiagnosticsIndependentOfToken ==
    /\ twin.diagnostics = diagnostics
    /\ OnlyRedacted(diagnostics.received)
    /\ OnlyRedacted(twin.diagnostics.received)

SentPass(events, token) ==
    \E i \in DOMAIN events :
        /\ events[i].kind = "Send"
        /\ events[i].arg = <<"PASS oauth:">> \o token \o <<CRLF>>

\* The two runs have sent their PASS lines, each with its token, a
\* subscriber has been told of it and of a line of the server, and the
\* worker has gone on.
C29_Witness ==
    /\ SentPass(log, Token)
    /\ SentPass(twin.log, OtherToken)
    /\ twin.log # log
    /\ \E i \in DOMAIN diagnostics.received :
          /\ diagnostics.received[i] = Redacted
          /\ i < Len(diagnostics.received)
    /\ \E i \in DOMAIN diagnostics.received :
          diagnostics.received[i][1] = "> "
    /\ loggedIn


\* ================================================================== C31
AwaitingIds(awaiting) == {awaiting[i].id : i \in DOMAIN awaiting}

\* C31: an action put on the awaiting list by a step has as its expiration
\* the time the clock shows at that step plus LOG_IN_TIMEOUT_SECONDS,
\* whatever the phase of the log-in it is queued for (LogIn, RequestCaps or
\* AwaitMotd), and an action that stays on the list keeps its expiration.
C31_DeadlineFromQueueing ==
    [][\A i \in DOMAIN actionsAwaitingResponses' :
          LET b == actionsAwaitingResponses'[i] IN
          IF b.id \in AwaitingIds(actionsAwaitingResponses)
          THEN \E k \in DOMAIN actionsAwaitingResponses :
                  actionsAwaitingResponses[k] = b
          ELSE /\ b.type \in {"LogIn", "RequestCaps", "AwaitMotd"}
               /\ b.expiration = currentTime + LOG_IN_TIMEOUT_SECONDS]_vars

\* The wait for the MOTD began when the clock showed 1, after a wait for
\* the answer to CAP REQ.
C31_Witness ==
    /\ \E i \in DOMAIN actionsAwaitingResponses :
          /\ actionsAwaitingResponses[i].type = "AwaitMotd"
          /\ actionsAwaitingResponses[i].expiration = 1 + LOG_IN_TIMEOUT_SECONDS
    /\ \E i \in DOMAIN log : log[i].kind = "Await" /\ log[i].arg = <<"RequestCaps">>


\* ================================================================== C32
\* The CAP LS lines of the server: those that say more lines follow ("*"
\* before the capabilities) and those that end the list.
MoreLsFrames ==
    {name \in HandshakeFrames :
        LET p == Frame(name).parameters IN
        /\ Frame(name).command = <<"CAP">>
        /\ Len(p) >= 4
        /\ p[2] = <<"LS">>
        /\ p[3] = <<"*">>}

MoreLsCaps(name) == Range(Split(Frame(name).parameters[4]))

HandledMoreLs(name) ==
    /\ name \in MoreLsFrames
    /\ Handled(name)
    /\ HasAwaiter(last.awaiting, "LogIn")

\* The last step performed a LogIn action that connected.
Connected ==
    /\ Performed("LogIn")
    /\ last.connection = 0
    /\ connection # 0
    /\ conns[connection].isConnected

\* C32: while the capability list is awaited, the step that handles a CAP LS
\* line announcing more lines adds its capabilities to capsSupported and does
\* nothing else: no line is sent and the awaiting list stays as it was, the
\* LogIn action on it.  The step that handles the last line of the list adds
\* its capabilities too, and takes the decision over capsSupported, which is
\* then the capabilities of all the CAP LS lines handled since the
\* connection was made: it is empty after the connection, and no other step
\* changes it while the list is awaited.
C32_DecisionOnLastLsLine ==
    /\ \A name \in MoreLsFrames :
          HandledMoreLs(name) =>
              /\ capsSupported = last.capsSupported \cup MoreLsCaps(name)
              /\ LastEvents = <<>>
              /\ actionsAwaitingResponses = last.awaiting
    /\ \A name \in FinalLsFrames :
          HandledFinalLs(name) =>
              /\ capsSupported = last.capsSupported \cup FinalLsCaps(name)
              /\ ~HasAwaiter(actionsAwaitingResponses, "LogIn")
              /\ HasAwaiter(actionsAwaitingResponses,
                            IF CapsWanted \subseteq capsSupported
                            THEN "RequestCaps" ELSE "AwaitMotd")
    /\ Connected => capsSupported = {}
    /\ (/\ last.op # ""
        /\ ~Connected
        /\ \A name \in MoreLsFrames \cup FinalLsFrames : ~Handled(name))
          => capsSupported = last.capsSupported

\* The last line of the list, which lacks a capability, was handled after a
\* line that had advertised it, and the capabilities were requested.
C32_Witness ==
    /\ HandledFinalLs("CapLsPart")
    /\ ~(CapsWanted \subseteq FinalLsCaps("CapLsPart"))
    /\ LastLines = <<CapReqLine>>

\* A line announcing more lines was handled and added a capability.
C32_WitnessMore ==
    /\ HandledMoreLs("CapLsMore")
    /\ capsSupported # last.capsSupported


\* ================================================================== C33
\* The actions that are on the awaiting list when the clock has reached
\* their expiration, by the order of their queueing.
Overdue ==
    {actionsAwaitingResponses[i].id : i \in
        {k \in DOMAIN actionsAwaitingResponses :
            currentTime >= actionsAwaitingResponses[k].expiration}}

TimedOutIn(events) ==
    {events[i].id : i \in {k \in DOMAIN events : events[k].kind = "Timeout"}}

\* The mailbox is empty and the worker is not about to perform an action.
Quiet == actionsToBePerformed = <<>> /\ pc # "perform"

\* C33: with a TimeKeeper, the actions that are on the awaiting list when
\* the clock has reached their expiration are timed out in the end though
\* nothing is posted any more, as long as the object is not destroyed: from
\* a state where the mailbox is empty and no action is being performed,
\* either none of them is left on the list, or something is posted, or
\* stopWorker is set; and an action that a sweep of ProcessTimeouts takes off
\* the list is timed out by it.  So the worker does not stay in its wait
\* while actions await responses.
C33_ExpiredIsTimedOut ==
    /\ [][pc = "sweep" =>
            AwaitingIds(actionsAwaitingResponses)
                \ AwaitingIds(actionsAwaitingResponses')
                    \subseteq TimedOutIn(log') \ TimedOutIn(log)]_vars
    /\ (timeKeeper /\ Overdue # {} /\ Quiet)
          ~> (Overdue = {} \/ actionsToBePerformed # <<>> \/ stopWorker)

\* The worker is in its wait, nothing in the mailbox, while the log-in awaits
\* its answer and the clock has reached the expiration.
C33_Witness ==
    /\ pc = "wait"
    /\ Quiet
    /\ ~stopWorker
    /\ Overdue # {}


\* ================================================================== C34
\* C34: once the destructor has set stopWorker and notified wakeWorker, the
\* worker leaves its loop, so that the join of the destructor returns,
\* whatever the worker was doing and whatever the transport posts meanwhile,
\* the action being performed returning and the posts being finitely many.
C34_StopEndsWorker == stopWorker ~> pc = "done"

\* stopWorker was set while an action was being performed, the worker has
\* performed that action and more, and has left its loop.
C34_Witness ==
    /\ pc = "done"
    /\ atStop.pc = "perform"
    /\ Len(performed) > atStop.performed

\* stopWorker was set while the worker was in its wait.
C34_WitnessWaiting == pc = "done" /\ atStop.pc = "wait"


\* ================================================================== C39
\* The actions posted so far: those the worker has popped and those in the
\* mailbox.
Posted == Len(performed) + Len(actionsToBePerformed)

\* The worker has popped and performed the k-th action posted.
PerformedUpTo(k) ==
    /\ Len(performed) >= k
    /\ ~(pc = "perform" /\ Len(performed) = k)

\* The posts a run can make.
Posts == 1..(MaxApiCalls + MaxReceives)

\* C39 as stated: every action put in the mailbox while stopWorker is false
\* is popped and performed by the worker in the end.
C39_EveryPostPerformed ==
    \A k \in Posts : (Posted >= k /\ ~stopWorker) ~> PerformedUpTo(k)

\* Every action posted has been performed.
Drained == actionsToBePerformed = <<>> /\ pc # "perform"

\* C39, amended: no notification is lost, that is, the worker is not left
\* in its wait, unnotified, when the mailbox is not empty or stopWorker is
\* set; and every action put in the mailbox is popped and performed by the
\* worker in the end unless stopWorker is set before the worker pops it:
\* when actions are in the mailbox or being performed, in the end either
\* all of them have been performed, or stopWorker is set and none is being
\* performed.
C39_PostPerformedUnlessStopped ==
    /\ [](pc = "wait" /\ (actionsToBePerformed # <<>> \/ stopWorker)
            => notified)
    /\ ~Drained ~> (Drained \/ (stopWorker /\ pc # "perform"))

\* An action was posted while the worker was in its wait without the 50 ms
\* cap, and the worker has been notified.
C39_Witness ==
    /\ pc = "wait"
    /\ notified
    /\ actionsAwaitingResponses = <<>>
    /\ actionsToBePerformed # <<>>
    /\ ~stopWorker

\* An action posted while the worker was performing another has been
\* performed after it, before the worker has waited again.
C39_WitnessDrain ==
    /\ last.op = "Perform"
    /\ last.action.type = "ProcessMessagesReceived"
    /\ Len(performed) >= 2
    /\ pc = "lock"
    /\ ~stopWorker


\* ================================================================== C35
\* The session after a ProcessMessagesReceived action that carries the text.
Received(s, text) ==
    PerformActionProcessMessagesReceived(
        s, NewAction("ProcessMessagesReceived", <<>>, <<>>, text, FALSE))

\* What the server can send next: one line or two.
Streams ==
    {<<f, CRLF>> : f \in StreamFrames}
        \cup {<<f, CRLF, g, CRLF>> : f \in StreamFrames, g \in StreamFrames}

\* All that Message::Parse takes from the characters given, called until it
\* returns false: the messages, in order, and what is left in the buffer.
RECURSIVE ParseAll(_)
ParseAll(data) ==
    LET r == MessageParse(data, NewMessage) IN
    IF ~r.ok
    THEN [messages |-> <<>>, rest |-> data]
    ELSE LET q == ParseAll(r.dataReceived)
         IN  [messages |-> <<r.message>> \o q.messages, rest |-> q.rest]

\* Characters received in two pieces, cut anywhere (between the CR and the
\* LF of a line too), give the messages and leave in the buffer what they
\* give and leave when received at once.
ParseCutAnywhere ==
    \A data \in ParseInputs :
        \A k \in 0..Len(data) :
            LET whole == ParseAll(data)
                head == ParseAll(SubSeq(data, 1, k))
                tail == ParseAll(head.rest \o SubSeq(data, k + 1, Len(data)))
            IN  /\ head.messages \o tail.messages = whole.messages
                /\ tail.rest = whole.rest

\* C35: what the session does with the text the server sends depends on the
\* text only, not on the pieces it arrives in.  In every state of the
\* session, one or two lines of the server received in two actions, cut
\* anywhere, leave the session as the same text received in one action does:
\* the same calls of User and the same lines sent, in the same order, and
\* the same buffer.  A piece without a CRLF is kept in the buffer and nothing
\* is done with it; the line is handled when its CRLF has arrived.  And
\* Message::Parse takes the same messages from characters cut anywhere.
C35_SplitsDoNotMatter ==
    /\ \A text \in Streams :
          \A k \in 0..Len(text) :
              Received(Received(Session, SubSeq(text, 1, k)),
                       SubSeq(text, k + 1, Len(text)))
                  = Received(Session, text)
    /\ \A f \in StreamFrames :
          Received(Session, <<f>>)
              = [Session EXCEPT !.dataReceived = @ \o <<f>>]
    /\ ParseCutAnywhere

\* The worker has taken the CRLF of a line whose head had come in another
\* action, and has handled the line: the list of capabilities, and CAP REQ
\* went out, once.
C35_Witness ==
    /\ Performed("ProcessMessagesReceived")
    /\ last.dataReceived = <<"CapLsFull">>
    /\ last.action.message[1] = CRLF
    /\ Len(LastLines) = 1
    /\ LoginRank(LastLines[1]) = 2


\* ================================================================== C38
\* The lines among the events, without their CRLF.
LinesOf(events) ==
    LET sends == SelectSeq(events, LAMBDA e : e.kind = "Send")
    IN  [i \in DOMAIN sends |-> SubSeq(sends[i].arg, 1, Len(sends[i].arg) - 1)]

\* How many of the lines are CAP REQ or CAP END.
CapAnswers(lines) ==
    Cardinality({i \in DOMAIN lines : LoginRank(lines[i]) \in {2, 3}})

\* The frames of the log-in.
LoginFrames == CapFrames \cup {"Motd"}

\* C38: one frame from the server advances the log-in by at most one phase.
\* In every state of the session and for every frame of the log-in, handling
\* the frame puts at most one action on the awaiting list, the action it puts
\* there is still there when the walk of the list is over (the walk visits
\* it, the list being a std::list whose end stays the end, but the frame does
\* not complete it), and at most one of CAP REQ and CAP END is sent.
C38_OnePhasePerFrame ==
    \A f \in LoginFrames :
        LET after == HandleServerCommand(Session, Frame(f))
            events == SubSeq(after.log, Len(log) + 1, Len(after.log))
            pushed == {events[i].id : i \in {j \in DOMAIN events :
                                               events[j].kind = "Await"}}
        IN  /\ Cardinality(pushed) <= 1
            /\ pushed \subseteq AwaitingIds(after.awaiting)
            /\ CapAnswers(LinesOf(events)) <= 1

\* The worker has handled the whole list of capabilities for the action
\* awaiting it: CAP REQ went out, and the RequestCaps action that was put on
\* the list in that walk is on it, the only one.
C38_Witness ==
    /\ Performed("ProcessMessagesReceived")
    /\ last.action.message = <<"CapLsFull", CRLF>>
    /\ Len(last.awaiting) = 1
    /\ last.awaiting[1].type = "LogIn"
    /\ Len(actionsAwaitingResponses) = 1
    /\ actionsAwaitingResponses[1].type = "RequestCaps"
    /\ CapAnswers(LastLines) = 1


\* ================================================================== C36
\* The places of the history where User.LogOut was called for connection c.
LogOutsFor(c) ==
    {i \in DOMAIN log : IsUserCall(log[i], "LogOut") /\ log[i].conn = c}

\* C36: once User.LogOut has been called for a connection, User.LogIn is not
\* called for that connection afterwards, whatever arrives on it later.
C36_NoLogInAfterLogOut ==
    \A i \in DOMAIN log :
        IsUserCall(log[i], "LogIn") =>
            \A j \in LogOutsFor(log[i].conn) : j > i


\* ================================================================== C37
\* NICK was sent on connection c before place i of the history.
NickSentBefore(c, i) ==
    \E j \in 1..(i - 1) :
        /\ log[j].kind = "Send"
        /\ log[j].conn = c
        /\ log[j].arg[1] = "NICK "

\* C37: User.LogIn is called only after NICK was sent on the connection.  A
\* 376 handled while no action awaits the MOTD (the action of the log-in is
\* still awaiting the list of capabilities or the answer to CAP REQ, or there
\* is none) leaves the session as it is: loggedIn is not set and User.LogIn
\* is not called.
C37_LogInOnlyAfterNick ==
    /\ \A i \in DOMAIN log :
          IsUserCall(log[i], "LogIn") => NickSentBefore(log[i].conn, i)
    /\ ~HasAwaiter(actionsAwaitingResponses, "AwaitMotd") =>
          HandleServerCommand(Session, Frame("Motd")) = Session

\* The worker has handled a 376 that came while the action of the log-in
\* awaited the list of capabilities or the answer to CAP REQ: nothing was
\* done, and the user is not logged in.
C37_Witness ==
    /\ Performed("ProcessMessagesReceived")
    /\ last.action.message = <<"Motd", CRLF>>
    /\ \/ HasAwaiter(last.awaiting, "LogIn")
       \/ HasAwaiter(last.awaiting, "RequestCaps")
    /\ LastEvents = <<>>
    /\ ~loggedIn
    /\ actionsAwaitingResponses = last.awaiting

\* The 376 came after NICK, and User.LogIn was called.
C37_WitnessLogIn ==
    /\ Performed("ProcessMessagesReceived")
    /\ HasAwaiter(last.awaiting, "AwaitMotd")
    /\ \E i \in DOMAIN LastEvents : IsUserCall(LastEvents[i], "LogIn")
    /\ NickSentBefore(connection, last.logLen + 1)


\* ================================================================== C40
\* C40: handling a line of the server never reads a parameter, or a part of
\* a parameter, that is not there: no read outside message.parameters or
\* outside the parts of a parameter has happened.
C40_NoMissingParameterRead == ~ub

====
